---- MODULE Spec2Model ----
(***************************************************************************)
(* State-machine model of the sanity-pack asset pipeline: the fingerprint  *)
(* and version caches, DataFetcher (version -> manifest -> bounded         *)
(* downloads, per server, concurrently across servers), the cache flush,   *)
(* the extraction pass and the post-processing stages that main() runs     *)
(* after it; load_cache over every cache file it can find; process_asset   *)
(* record by record; the process killed in a run and started again; and    *)
(* FlattenImagePathsStep._flatten_directory of the pipeline package.       *)
(***************************************************************************)
EXTENDS Integers, Sequences, FiniteSets, TLC

VARIABLES
    config,         \* Config.servers: server -> [enabled, path_whitelist]
    manifest,       \* remote hot_update_list.json of each server (abInfos)
    diskAssets,     \* cache_dir/assets.json  (AssetCache.assets on disk)
    diskVersion,    \* cache_dir/version.json (VersionCache on disk)
    asset_cache,    \* DataFetcher.asset_cache.assets (in memory)
    version_cache,  \* DataFetcher.version_cache (in memory)
    semaphore,      \* DataFetcher._semaphore._value
    outputTree,     \* output_dir/<server>/<path>: content of the bundle file
    srv,            \* position of each fetch_server_assets coroutine
    tasks,          \* the download_asset coroutines gathered per server
    mainPc,         \* position of main()
    run,            \* number of the current run of main()
    cleanRuns,      \* no download of an earlier run failed
    xsem,           \* UnityAssetExtractor._semaphore._value
    xtasks,         \* the process_asset coroutines gathered by extract_all
    pool,           \* anonymous download_asset coroutines, counted by position,
                    \* and the return statement the last of them left by
    cacheFiles,     \* what each cache file is: valid, missing, not JSON, or
                    \* JSON that does not validate against its model
    flushes,        \* save_cache calls made by fetch_assets in this run, per file
    loaded,         \* the last load_cache call: file, returned cache, save or not
    prior,          \* assets.json as it was when the first run started
    bundles,        \* the process_asset coroutines with their records
    xpool,          \* anonymous process_asset coroutines, counted by position
    files,          \* the extracted files the post-processing stages work on
    stage           \* the post-processing call in progress

\* the cache files beside their contents
fileVars == <<cacheFiles, flushes>>
\* what only the function-level and record-level specifications move
sideVars == <<loaded, prior, bundles, xpool, files, stage>>
\* what only the post-processing specifications move
postVars == <<xpool, files, stage>>

vars == <<config, manifest, diskAssets, diskVersion, asset_cache, version_cache,
          semaphore, outputTree, srv, tasks, mainPc, run, cleanRuns, xsem,
          xtasks, pool, cacheFiles, flushes, loaded, prior, bundles, xpool,
          files, stage>>

----------------------------------------------------------------------------
(* Bounds of the model *)

\* manifest entries, over all servers, in the single-run specification
MaxEntries == 3
\* manifest entries, over all servers, in the repeated-run specification
RunsEntries == 2
\* number of runs of Sync in the repeated-run specification
MaxRuns == 2
\* download_asset coroutines per server in the semaphore specification
PoolTasks == 18
\* bundle files in the output tree in the record-level specification
MaxBundles == 2
\* records (env.objects) of a bundle in the record-level specification
MaxRecords == 2
\* process_asset coroutines in the extraction-semaphore specification
ExtractTasks == 10
\* data-table files in the text-decoding specification
MaxTables == 3
MaxMedia == 2
\* .wav files in the audio specification
MaxWavs == 2
\* image files in the alpha specification
MaxImages == 5
\* files in the flattening specification
MaxFlat == 5
\* sprite entries of an atlas descriptor in the portrait specification
MaxSprites == 2
\* abInfos entries of the manifest in the task-building specification
MaxRaw == 2

(* Program constants *)

\* asyncio.Semaphore(35)
SemaphoreCap == 35
\* stop_after_attempt(5)
MaxAttempts == 5
\* asyncio.Semaphore(8)
ExtractCap == 8
\* asyncio.Semaphore(8) of UnityAssetExtractor._object_semaphore
ObjectCap == 8
\* asyncio.Semaphore(35) of process_audio_files
AudioCap == 35

----------------------------------------------------------------------------
(* Data *)

Servers == {"CN", "EN"}

\* Asset paths are character sequences, so that startswith is computed.
PathCF == <<"c", "/", "f">>
PathOF == <<"o", "/", "f">>
\* a path that is the beginning of a whitelist entry
PathC == <<"c">>
\* the order in which a manifest lists the paths
PathList == <<PathOF, PathCF, PathC>>
Paths == {PathList[k] : k \in 1..Len(PathList)}
PrefixC == <<"c", "/">>

Hashes == {"H1", "H2"}

\* dict.get() on a missing key
NoHash == "None"
\* no file at a path of the output tree
NoFile == "absent"
\* a file left truncated by an extract() that raised while writing
Partial == "partial"

\* VersionInfo() default: resource = ""
NoVersion == ""
\* resVersion served by the version endpoint of a server
RemoteVersion(s) == IF s = "CN" THEN "r-cn" ELSE "r-en"

Entry(p, h) == [name |-> p, hash |-> h]
Entries == {Entry(p, h) : p \in Paths, h \in Hashes}

RECURSIVE SeqsUpTo(_, _)
SeqsUpTo(S, n) ==
    IF n = 0 THEN {<<>>}
    ELSE LET shorter == SeqsUpTo(S, n - 1)
         IN  shorter \cup {Append(q, e) : q \in {r \in shorter : Len(r) = n - 1}, e \in S}

Min(a, b) == IF a < b THEN a ELSE b

\* the two cache files of cache_dir
CacheFileNames == {"version", "assets"}

\* what load_cache can find at cache_path: a document that validates, no
\* file, text that json.loads rejects (an empty or cut-off document is one),
\* or JSON that model_validate rejects
FileStates == {"valid", "missing", "not_json", "invalid"}

----------------------------------------------------------------------------
(* Pure helpers of DataFetcher *)

\* str.startswith
StartsWith(str, prefix) ==
    /\ Len(prefix) <= Len(str)
    /\ SubSeq(str, 1, Len(prefix)) = prefix

\* IsPathWhitelisted without  prefix.startswith(path)
IsPathWhitelistedOneWay(s, path) ==
    LET whitelist == config[s].path_whitelist
    IN  IF whitelist = <<>> THEN TRUE
        ELSE \E k \in 1..Len(whitelist) : StartsWith(path, whitelist[k])

IsPathWhitelisted(s, path) ==
    LET whitelist == config[s].path_whitelist
    IN  IF whitelist = <<>> THEN TRUE
        ELSE \E k \in 1..Len(whitelist) :
                \/ StartsWith(path, whitelist[k])
                \/ StartsWith(whitelist[k], path)

\* AssetCache.get_hash
GetHash(cache, path) == cache[path]

\* AssetCache.set_hash
SetHash(cache, path, h) == [cache EXCEPT ![path] = h]

\* the comparison  cached_hash == asset_hash
HashIsCurrent(cache, path, h) == GetHash(cache, path) = h

\* asyncio.Semaphore: locked(), acquire(), release()
SemLocked(v) == v = 0
SemAcquire(v) == v - 1
SemRelease(v) == v + 1

\* an abInfos entry is a JSON object (a record of the keys it has) or some
\* other JSON value, written [json |-> its type]
IsDict(asset) == "json" \notin DOMAIN asset

\* path = asset.get("name"), truthy: the key is there and not ""
HasName(asset) == "name" \in DOMAIN asset /\ Len(asset.name) > 0

\* hash_value = asset.get("hash") or asset.get("md5")
HashValue(asset) ==
    IF "hash" \in DOMAIN asset /\ asset.hash \notin {NoHash, ""} THEN asset.hash
    ELSE IF "md5" \in DOMAIN asset THEN asset.md5
    ELSE NoHash

\* "if path and hash_value"
HasHash(asset) == HashValue(asset) \notin {NoHash, ""}

\* the download task fetch_server_assets builds from an abInfos entry
NewTask(e) ==
    [path |-> e.name, hash |-> HashValue(e), pc |-> "pending", exit |-> "-",
     ret |-> "-", requests |-> 0, wrote |-> FALSE, setHash |-> FALSE,
     version |-> "-"]

\* MakeTasks with a task for every entry that has a name, hash or not
RECURSIVE MakeTasksOfNamed(_)
MakeTasksOfNamed(assets) ==
    IF assets = <<>> THEN <<>>
    ELSE (IF IsDict(Head(assets)) /\ HasName(Head(assets))
          THEN <<NewTask(Head(assets))>>
          ELSE <<>>) \o MakeTasksOfNamed(Tail(assets))

\* the tasks list of fetch_server_assets: one download_asset coroutine for
\* every entry that is an object with a name and a hash, in manifest order
RECURSIVE MakeTasks(_)
MakeTasks(assets) ==
    IF assets = <<>> THEN <<>>
    ELSE (IF IsDict(Head(assets)) /\ HasName(Head(assets)) /\ HasHash(Head(assets))
          THEN <<NewTask(Head(assets))>>
          ELSE <<>>) \o MakeTasks(Tail(assets))

----------------------------------------------------------------------------
(* load_cache / save_cache *)

\* LoadCache with the save of the fresh instance left out
LoadCacheWithoutSave(state, content, empty) ==
    IF state = "valid"
    THEN [cache |-> content, state |-> "valid", content |-> content, wrote |-> FALSE]
    ELSE [cache |-> empty, state |-> state, content |-> empty, wrote |-> FALSE]

\* load_cache on a file in the given state with the given content: the cache
\* it returns, the file it leaves, and whether it called save_cache. A file
\* that exists and loads is returned as it is; otherwise (no file,
\* JSONDecodeError, ValueError) model_class() is saved and returned.
LoadCache(state, content, empty) ==
    IF state = "valid"
    THEN [cache |-> content, state |-> "valid", content |-> content, wrote |-> FALSE]
    ELSE [cache |-> empty, state |-> "valid", content |-> empty, wrote |-> TRUE]

----------------------------------------------------------------------------
(* The extracted files: files maps each path that exists under output_dir  *)
(* to what the file holds. A path is a directory, a stem (a sequence of    *)
(* characters and tokens) and an extension.                                *)

FilePath(dir, stem, ext) == [dir |-> dir, stem |-> stem, ext |-> ext]
Exists(fs, p) == p \in DOMAIN fs
WriteFile(fs, p, c) == [q \in DOMAIN fs \cup {p} |-> IF q = p THEN c ELSE fs[q]]
Unlink(fs, p) == [q \in DOMAIN fs \ {p} |-> fs[q]]
WithSuffix(p, ext) == [p EXCEPT !.ext = ext]

\* the elements of a sequence, and the orders a directory scan may list a
\* set of files in
Range(seq) == {seq[i] : i \in 1..Len(seq)}
Orderings(S) == {seq \in [1..Cardinality(S) -> S] : Range(seq) = S}

\* the portrait atlas of a server: descriptor and image of the same stem
\* output_dir/<server>/arts/charportraits
PortraitDir(s) == IF s = "CN" THEN "cn/arts/charportraits" ELSE "en/arts/charportraits"
AtlasStem == <<"portraits#0">>
AtlasJson(s) == FilePath(PortraitDir(s), AtlasStem, "json")

AtlasSize == <<2, 2>>
AtlasImage == [kind |-> "image", size |-> AtlasSize, mode |-> "RGBA", alpha |-> "-"]
\* the atlas a server has left from an earlier run: one nested entry
LeftoverAtlas(s) ==
    [p \in {AtlasJson(s), WithSuffix(AtlasJson(s), "png")} |->
        IF p.ext = "json"
        THEN [kind |-> "atlas", sprites |->
                <<[name |-> "char_z", shape |-> "nested", width |-> 1,
                   height |-> 1, rotation |-> 0]>>]
        ELSE AtlasImage]

----------------------------------------------------------------------------
(* Initial state: main() is about to load the caches *)

\* no fetch_server_assets coroutine exists
NoCoroutine == [pc |-> "none", attempt |-> 0]

EmptyAssets == [p \in Paths |-> NoHash]
EmptyVersions == [s \in Servers |-> NoVersion]
EmptyTree == [s \in Servers |-> [p \in Paths |-> NoFile]]
PoolOf(n) ==
    [CN |-> [pending |-> n, inflight |-> 0, done |-> 0],
     EN |-> [pending |-> n, inflight |-> 0, done |-> 0],
     last |-> "-"]
EmptyPool == PoolOf(0)

ServerConfig(enabled, whitelist) ==
    [enabled |-> enabled, path_whitelist |-> whitelist]

\* the configurations the model runs under
Configs ==
    { [CN |-> ServerConfig(TRUE, <<>>), EN |-> ServerConfig(TRUE, <<>>)],
      [CN |-> ServerConfig(TRUE, <<PrefixC>>), EN |-> ServerConfig(FALSE, <<>>)] }

\* the hashes a server publishes
ServerHashes(s) == IF s = "CN" THEN {"H1"} ELSE Hashes

\* the manifests of a server: the first k paths of PathList, k <= len, each
\* with one of the server's hashes
Manifests(s, len) ==
    { m \in SeqsUpTo(Entries, Min(len, Len(PathList))) :
        \A k \in 1..Len(m) : m[k].name = PathList[k] /\ m[k].hash \in ServerHashes(s) }

\* no process_asset coroutine counted, no extracted file, no stage running
XPoolOf(n) ==
    [pending |-> n, open |-> [r \in 0..MaxRecords |-> 0], done |-> 0,
     osem |-> ObjectCap, last |-> "-"]
NoFiles == [f \in {} |-> NoFile]
NoStage == [name |-> "-", log |-> <<>>]
NoPost ==
    /\ xpool = XPoolOf(0)
    /\ files = NoFiles
    /\ stage = NoStage

\* no save_cache call yet
NoFlush == [version |-> 0, assets |-> 0]
\* no load_cache call observed
NotLoaded == [file |-> "-", cache |-> <<>>, wrote |-> FALSE]

\* what an earlier run has left under output_dir: a bundle under the
\* directory of a server that has been disabled since, and the portrait
\* atlases of both servers
LeftoverTree(cfg) ==
    [s \in Servers |-> [p \in Paths |->
        IF ~cfg[s].enabled /\ p = PathOF THEN "H1" ELSE NoFile]]
LeftoverFiles == LeftoverAtlas("CN") @@ LeftoverAtlas("EN")

\* version.json as an earlier run against older servers has left it
StaleVersion == "r-old"
StaleVersions == [s \in Servers |-> StaleVersion]

InitWithVersions(len, states, versions) ==
    /\ config \in Configs
    /\ \E cn \in Manifests("CN", len), en \in Manifests("EN", len) :
          /\ Len(cn) + Len(en) <= len
          /\ manifest = [CN |-> cn, EN |-> en]
    /\ cacheFiles \in [version : states, assets : states]
    /\ diskAssets \in IF cacheFiles.assets = "valid"
                      THEN {EmptyAssets, [EmptyAssets EXCEPT ![PathOF] = "H1"]}
                      ELSE {EmptyAssets}
    /\ diskVersion \in IF cacheFiles.version = "valid"
                       THEN versions
                       ELSE {EmptyVersions}
    /\ flushes = NoFlush
    /\ loaded = NotLoaded
    /\ prior = diskAssets
    /\ bundles = <<>>
    /\ xpool = XPoolOf(0)
    /\ files = LeftoverFiles
    /\ stage = NoStage
    /\ asset_cache = EmptyAssets
    /\ version_cache = EmptyVersions
    /\ semaphore = SemaphoreCap
    /\ outputTree = LeftoverTree(config)
    /\ srv = [s \in Servers |-> NoCoroutine]
    /\ tasks = [s \in Servers |-> <<>>]
    /\ mainPc = "load"
    /\ run = 1
    /\ cleanRuns = TRUE
    /\ xsem = ExtractCap
    /\ xtasks = <<>>
    /\ pool = EmptyPool

InitWith(len, states) == InitWithVersions(len, states, {EmptyVersions})

Init == InitWith(MaxEntries, FileStates)

----------------------------------------------------------------------------
(* main(): load_caches, then fetch_assets *)

\* load_cache() of both files, DataFetcher(config), fetcher.*_cache = ...,
\* fetch_all() creating one fetch_server_assets coroutine per configured server
LoadCaches ==
    /\ mainPc = "load"
    /\ LET v == LoadCache(cacheFiles.version, diskVersion, EmptyVersions)
           a == LoadCache(cacheFiles.assets, diskAssets, EmptyAssets)
       IN  /\ version_cache' = v.cache
           /\ asset_cache' = a.cache
           /\ diskVersion' = v.content
           /\ diskAssets' = a.content
           /\ cacheFiles' = [version |-> v.state, assets |-> a.state]
    /\ flushes' = NoFlush
    /\ semaphore' = SemaphoreCap
    /\ srv' = [s \in Servers |-> [pc |-> "start", attempt |-> 0]]
    /\ tasks' = [s \in Servers |-> <<>>]
    /\ mainPc' = "sync"
    /\ UNCHANGED <<config, manifest, outputTree, run, cleanRuns, xsem, xtasks,
                   pool, sideVars>>

SyncFrame ==
    UNCHANGED <<config, manifest, diskAssets, diskVersion, mainPc, run,
                cleanRuns, xsem, xtasks, pool, fileVars, sideVars>>

\* ServerStart with the version request left out when the cache already
\* holds a version for the server
ServerStartTrustingCache(s) ==
    /\ mainPc = "sync"
    /\ srv[s].pc = "start"
    /\ srv' = [srv EXCEPT ![s] =
                 IF ~config[s].enabled THEN [pc |-> "disabled", attempt |-> 0]
                 ELSE IF version_cache[s] # NoVersion
                 THEN [pc |-> "manifest", attempt |-> 1, resource |-> version_cache[s]]
                 ELSE [pc |-> "version", attempt |-> 1]]
    /\ UNCHANGED <<asset_cache, version_cache, semaphore, outputTree, tasks>>
    /\ SyncFrame

\* fetch_server_assets up to its first await: the enabled check, then
\* get_asset_list -> get_version -> _fetch_json issuing the version request
ServerStart(s) ==
    /\ mainPc = "sync"
    /\ srv[s].pc = "start"
    /\ srv' = [srv EXCEPT ![s] =
                 IF config[s].enabled
                 THEN [pc |-> "version", attempt |-> 1]
                 ELSE [pc |-> "disabled", attempt |-> 0]]
    /\ UNCHANGED <<asset_cache, version_cache, semaphore, outputTree, tasks>>
    /\ SyncFrame

\* one attempt of _fetch_json raised (transport error, HTTP status, or a body
\* that is not JSON): tenacity waits and calls again, or gives up after
\* stop_after_attempt(5) and the error reaches fetch_server_assets' except
FetchJsonRetry(st) ==
    IF st.attempt < MaxAttempts
    THEN [st EXCEPT !.attempt = st.attempt + 1]
    ELSE [pc |-> "failed", attempt |-> 0]

\* VersionAttemptFails with the final error swallowed: get_asset_list goes on
\* to the manifest request with whatever version the cache holds
VersionAttemptFailsGoesOn(s) ==
    /\ mainPc = "sync"
    /\ srv[s].pc = "version"
    /\ srv' = [srv EXCEPT ![s] =
                 IF srv[s].attempt < MaxAttempts
                 THEN [@ EXCEPT !.attempt = @ + 1]
                 ELSE [pc |-> "manifest", attempt |-> 1,
                       resource |-> version_cache[s]]]
    /\ UNCHANGED <<asset_cache, version_cache, semaphore, outputTree, tasks>>
    /\ SyncFrame

VersionAttemptFails(s) ==
    /\ mainPc = "sync"
    /\ srv[s].pc = "version"
    /\ srv' = [srv EXCEPT ![s] = FetchJsonRetry(srv[s])]
    /\ UNCHANGED <<asset_cache, version_cache, semaphore, outputTree, tasks>>
    /\ SyncFrame

\* the version response is not JSON: response.json() and the json.loads
\* fallback raise inside _fetch_json, under @retry like any other error
VersionMalformedBody(s) ==
    /\ mainPc = "sync"
    /\ srv[s].pc = "version"
    /\ srv' = [srv EXCEPT ![s] = FetchJsonRetry(srv[s])]
    /\ UNCHANGED <<asset_cache, version_cache, semaphore, outputTree, tasks>>
    /\ SyncFrame

\* VersionMissingFields with fetch_server_assets' try/except left out: the
\* KeyError leaves gather and fetch_all, and main() is aborted
VersionMissingFieldsUncaught(s) ==
    /\ mainPc = "sync"
    /\ srv[s].pc = "version"
    /\ srv' = [srv EXCEPT ![s] = [pc |-> "failed", attempt |-> 0]]
    /\ mainPc' = "crashed"
    /\ UNCHANGED <<asset_cache, version_cache, semaphore, outputTree, tasks>>
    /\ UNCHANGED <<config, manifest, diskAssets, diskVersion, run,
                   cleanRuns, xsem, xtasks, pool, fileVars, sideVars>>

\* the version document lacks resVersion or clientVersion: KeyError in
\* get_version, outside _fetch_json, re-raised up to fetch_server_assets
VersionMissingFields(s) ==
    /\ mainPc = "sync"
    /\ srv[s].pc = "version"
    /\ srv' = [srv EXCEPT ![s] = [pc |-> "failed", attempt |-> 0]]
    /\ UNCHANGED <<asset_cache, version_cache, semaphore, outputTree, tasks>>
    /\ SyncFrame

\* get_version succeeds: set_version, then get_asset_list issues the
\* manifest request, its URL built from the version get_version returned
VersionOk(s) ==
    /\ mainPc = "sync"
    /\ srv[s].pc = "version"
    /\ version_cache' = [version_cache EXCEPT ![s] = RemoteVersion(s)]
    /\ srv' = [srv EXCEPT ![s] = [pc |-> "manifest", attempt |-> 1,
                                  resource |-> RemoteVersion(s)]]
    /\ UNCHANGED <<asset_cache, semaphore, outputTree, tasks>>
    /\ SyncFrame

ManifestAttemptFails(s) ==
    /\ mainPc = "sync"
    /\ srv[s].pc = "manifest"
    /\ srv' = [srv EXCEPT ![s] = FetchJsonRetry(srv[s])]
    /\ UNCHANGED <<asset_cache, version_cache, semaphore, outputTree, tasks>>
    /\ SyncFrame

\* the manifest response is not JSON: raised inside _fetch_json, under @retry
ManifestMalformedBody(s) ==
    /\ mainPc = "sync"
    /\ srv[s].pc = "manifest"
    /\ srv' = [srv EXCEPT ![s] = FetchJsonRetry(srv[s])]
    /\ UNCHANGED <<asset_cache, version_cache, semaphore, outputTree, tasks>>
    /\ SyncFrame

\* the manifest arrives: fetch_server_assets builds one download_asset
\* coroutine per entry and awaits asyncio.gather(*tasks)
ManifestOk(s) ==
    /\ mainPc = "sync"
    /\ srv[s].pc = "manifest"
    /\ tasks' = [tasks EXCEPT ![s] = MakeTasks(manifest[s])]
    /\ srv' = [srv EXCEPT ![s] = [pc |-> "download", attempt |-> 0]]
    /\ UNCHANGED <<asset_cache, version_cache, semaphore, outputTree>>
    /\ SyncFrame

----------------------------------------------------------------------------
(* download_asset *)

\* gather() starts the coroutines in the order they were created
MayStart(s, i) ==
    /\ mainPc = "sync"
    /\ srv[s].pc = "download"
    /\ i \in 1..Len(tasks[s])
    /\ tasks[s][i].pc = "pending"
    /\ \A j \in 1..(i - 1) : tasks[s][j].pc # "pending"
    /\ ~SemLocked(semaphore)

Returned(t, exit, ret) ==
    [t EXCEPT !.pc = "done", !.exit = exit, !.ret = ret]

\* not whitelisted: return None (the permit is taken and given back with no
\* await in between)
DownloadNotWhitelisted(s, i) ==
    /\ MayStart(s, i)
    /\ ~IsPathWhitelisted(s, tasks[s][i].path)
    /\ tasks' = [tasks EXCEPT ![s][i] = Returned(@, "not_whitelisted", "None")]
    /\ semaphore' = SemRelease(SemAcquire(semaphore))
    /\ UNCHANGED <<asset_cache, version_cache, outputTree, srv>>
    /\ SyncFrame

\* cached_hash == asset_hash: return None
DownloadHashMatch(s, i) ==
    /\ MayStart(s, i)
    /\ IsPathWhitelisted(s, tasks[s][i].path)
    /\ HashIsCurrent(asset_cache, tasks[s][i].path, tasks[s][i].hash)
    /\ tasks' = [tasks EXCEPT ![s][i] = Returned(@, "hash_match", "None")]
    /\ semaphore' = SemRelease(SemAcquire(semaphore))
    /\ UNCHANGED <<asset_cache, version_cache, outputTree, srv>>
    /\ SyncFrame

\* DownloadRequest with the cached-hash check left out
DownloadRequestIgnoringCache(s, i) ==
    /\ MayStart(s, i)
    /\ IsPathWhitelisted(s, tasks[s][i].path)
    /\ tasks' = [tasks EXCEPT ![s][i] =
                   [@ EXCEPT !.pc = "inflight", !.requests = @ + 1]]
    /\ semaphore' = SemAcquire(semaphore)
    /\ UNCHANGED <<asset_cache, version_cache, outputTree, srv>>
    /\ SyncFrame

\* otherwise the GET is issued, its URL built from the version the cache
\* holds for the server, and the coroutine awaits the response, holding its
\* permit
DownloadRequest(s, i) ==
    /\ MayStart(s, i)
    /\ IsPathWhitelisted(s, tasks[s][i].path)
    /\ ~HashIsCurrent(asset_cache, tasks[s][i].path, tasks[s][i].hash)
    /\ tasks' = [tasks EXCEPT ![s][i] =
                   [@ EXCEPT !.pc = "inflight", !.requests = @ + 1,
                             !.version = version_cache[s]]]
    /\ semaphore' = SemAcquire(semaphore)
    /\ UNCHANGED <<asset_cache, version_cache, outputTree, srv>>
    /\ SyncFrame

InFlight(s, i) ==
    /\ mainPc = "sync"
    /\ i \in 1..Len(tasks[s])
    /\ tasks[s][i].pc = "inflight"

\* DownloadClientError under a retry policy like _fetch_json's: the request
\* is issued again until stop_after_attempt(5)
DownloadClientErrorRetried(s, i) ==
    /\ InFlight(s, i)
    /\ tasks' = [tasks EXCEPT ![s][i] =
                   IF @.requests < MaxAttempts
                   THEN [@ EXCEPT !.requests = @ + 1]
                   ELSE Returned(@, "client_error", "None")]
    /\ semaphore' = IF tasks[s][i].requests < MaxAttempts
                    THEN semaphore ELSE SemRelease(semaphore)
    /\ UNCHANGED <<asset_cache, version_cache, outputTree, srv>>
    /\ SyncFrame

\* session.get / raise_for_status / response.read raise aiohttp.ClientError
DownloadClientError(s, i) ==
    /\ InFlight(s, i)
    /\ tasks' = [tasks EXCEPT ![s][i] = Returned(@, "client_error", "None")]
    /\ semaphore' = SemRelease(semaphore)
    /\ UNCHANGED <<asset_cache, version_cache, outputTree, srv>>
    /\ SyncFrame

\* they raise something else (the session's total timeout is an
\* asyncio.TimeoutError)
DownloadOtherError(s, i) ==
    /\ InFlight(s, i)
    /\ tasks' = [tasks EXCEPT ![s][i] = Returned(@, "unexpected_error", "None")]
    /\ semaphore' = SemRelease(semaphore)
    /\ UNCHANGED <<asset_cache, version_cache, outputTree, srv>>
    /\ SyncFrame

\* DownloadExtractFails with set_hash called before the archive is extracted
DownloadExtractFailsAfterSetHash(s, i) ==
    /\ InFlight(s, i)
    /\ tasks' = [tasks EXCEPT ![s][i] =
                   [Returned(@, "extract_failed", "None") EXCEPT !.setHash = TRUE]]
    /\ asset_cache' = SetHash(asset_cache, tasks[s][i].path, tasks[s][i].hash)
    /\ \/ outputTree' = outputTree
       \/ outputTree' = [outputTree EXCEPT ![s][tasks[s][i].path] = Partial]
    /\ semaphore' = SemRelease(semaphore)
    /\ UNCHANGED <<version_cache, srv>>
    /\ SyncFrame

\* the body is read but ZipFile() or extract() raises: logged, return None.
\* extract() may have created or truncated the target before raising.
DownloadExtractFails(s, i) ==
    /\ InFlight(s, i)
    /\ tasks' = [tasks EXCEPT ![s][i] = Returned(@, "extract_failed", "None")]
    /\ \/ outputTree' = outputTree
       \/ outputTree' = [outputTree EXCEPT ![s][tasks[s][i].path] = Partial]
    /\ semaphore' = SemRelease(semaphore)
    /\ UNCHANGED <<asset_cache, version_cache, srv>>
    /\ SyncFrame

\* DownloadExtracted with the set_hash call left out
DownloadExtractedKeepingHash(s, i, entries) ==
    /\ InFlight(s, i)
    /\ outputTree' = IF entries > 0
                     THEN [outputTree EXCEPT ![s][tasks[s][i].path] = tasks[s][i].hash]
                     ELSE outputTree
    /\ tasks' = [tasks EXCEPT ![s][i] =
                   [Returned(@, "fetched", "data") EXCEPT !.wrote = entries > 0]]
    /\ semaphore' = SemRelease(semaphore)
    /\ UNCHANGED <<asset_cache, version_cache, srv>>
    /\ SyncFrame

\* the body is an archive and every entry in zip_file.filelist is extracted
\* to output_dir/<server>/<asset_path>; then set_hash and return data.
\* entries is the number of entries of the archive: the loop body runs once
\* per entry, so an archive without entries writes nothing.
DownloadExtracted(s, i, entries) ==
    /\ InFlight(s, i)
    /\ outputTree' = IF entries > 0
                     THEN [outputTree EXCEPT ![s][tasks[s][i].path] = tasks[s][i].hash]
                     ELSE outputTree
    /\ asset_cache' = SetHash(asset_cache, tasks[s][i].path, tasks[s][i].hash)
    /\ tasks' = [tasks EXCEPT ![s][i] =
                   [Returned(@, "fetched", "data") EXCEPT
                       !.wrote = entries > 0, !.setHash = TRUE]]
    /\ semaphore' = SemRelease(semaphore)
    /\ UNCHANGED <<version_cache, srv>>
    /\ SyncFrame

\* asyncio.gather(*tasks) returns; fetch_server_assets returns
ServerDone(s) ==
    /\ mainPc = "sync"
    /\ srv[s].pc = "download"
    /\ \A i \in 1..Len(tasks[s]) : tasks[s][i].pc = "done"
    /\ srv' = [srv EXCEPT ![s] = [pc |-> "done", attempt |-> 0]]
    /\ tasks' = [tasks EXCEPT ![s] = <<>>]
    /\ cleanRuns' = (cleanRuns /\ \A i \in 1..Len(tasks[s]) : tasks[s][i].ret = "data"
                                      \/ tasks[s][i].exit \in {"hash_match", "not_whitelisted"})
    /\ UNCHANGED <<asset_cache, version_cache, semaphore, outputTree>>
    /\ UNCHANGED <<config, manifest, diskAssets, diskVersion, mainPc, run,
                   xsem, xtasks, pool, fileVars, sideVars>>

ServerEnded(s) == srv[s].pc \in {"disabled", "failed", "done"}

\* FetchAllReturn without the gather: fetch_all returns while the server
\* coroutines are still running
FetchAllReturnEarly ==
    /\ mainPc = "sync"
    /\ mainPc' = "save_version"
    /\ UNCHANGED <<config, manifest, diskAssets, diskVersion, asset_cache,
                   version_cache, semaphore, outputTree, srv, tasks, run,
                   cleanRuns, xsem, xtasks, pool, fileVars, sideVars>>

\* asyncio.gather over the servers returns to fetch_assets
FetchAllReturn ==
    /\ mainPc = "sync"
    /\ \A s \in Servers : ServerEnded(s)
    /\ mainPc' = "save_version"
    /\ srv' = [s \in Servers |-> NoCoroutine]
    /\ cleanRuns' = (cleanRuns /\ \A s \in Servers : srv[s].pc # "failed")
    /\ UNCHANGED <<config, manifest, diskAssets, diskVersion, asset_cache,
                   version_cache, semaphore, outputTree, tasks, run,
                   xsem, xtasks, pool, fileVars, sideVars>>

\* save_cache(fetcher.version_cache, cache_dir, "version.json")
SaveVersionCache ==
    /\ mainPc = "save_version"
    /\ diskVersion' = version_cache
    /\ cacheFiles' = [cacheFiles EXCEPT !.version = "valid"]
    /\ flushes' = [flushes EXCEPT !.version = @ + 1]
    /\ mainPc' = "save_assets"
    /\ UNCHANGED <<config, manifest, diskAssets, asset_cache, version_cache,
                   semaphore, outputTree, srv, tasks, run, cleanRuns, xsem,
                   xtasks, pool, sideVars>>

\* SaveAssetCache made conditional on a run without failures
SaveAssetCacheOnlyWhenClean ==
    /\ mainPc = "save_assets"
    /\ diskAssets' = IF cleanRuns THEN asset_cache ELSE diskAssets
    /\ cacheFiles' = [cacheFiles EXCEPT !.assets = "valid"]
    /\ flushes' = [flushes EXCEPT !.assets = IF cleanRuns THEN @ + 1 ELSE @]
    /\ mainPc' = "extract"
    /\ UNCHANGED <<config, manifest, diskVersion, asset_cache, version_cache,
                   semaphore, outputTree, srv, tasks, run, cleanRuns, xsem,
                   xtasks, pool, sideVars>>

\* save_cache(fetcher.asset_cache, cache_dir, "assets.json")
SaveAssetCache ==
    /\ mainPc = "save_assets"
    /\ diskAssets' = asset_cache
    /\ cacheFiles' = [cacheFiles EXCEPT !.assets = "valid"]
    /\ flushes' = [flushes EXCEPT !.assets = @ + 1]
    /\ mainPc' = "extract"
    /\ UNCHANGED <<config, manifest, diskVersion, asset_cache, version_cache,
                   semaphore, outputTree, srv, tasks, run, cleanRuns, xsem,
                   xtasks, pool, sideVars>>

\* positions in a server's list of download tasks
TaskIndexes == 1..Len(PathList)

\* the archives a successful GET may carry, by number of entries
ArchiveSizes == {0, 1}

SyncNext ==
    \/ LoadCaches
    \/ \E s \in Servers :
          \/ ServerStart(s)
          \/ VersionAttemptFails(s)
          \/ VersionMalformedBody(s)
          \/ VersionMissingFields(s)
          \/ VersionOk(s)
          \/ ManifestAttemptFails(s)
          \/ ManifestMalformedBody(s)
          \/ ManifestOk(s)
          \/ ServerDone(s)
    \/ \E s \in Servers, i \in TaskIndexes :
          \/ DownloadNotWhitelisted(s, i)
          \/ DownloadHashMatch(s, i)
          \/ DownloadRequest(s, i)
          \/ DownloadClientError(s, i)
          \/ DownloadOtherError(s, i)
          \/ DownloadExtractFails(s, i)
          \/ \E n \in ArchiveSizes : DownloadExtracted(s, i, n)
    \/ FetchAllReturn
    \/ SaveVersionCache
    \/ SaveAssetCache

----------------------------------------------------------------------------
(* main(): process_assets -> UnityAssetExtractor.extract_all *)

ServerList == <<"CN", "EN">>

\* the bundle files server_dir.glob finds under one server's directory,
\* from position k of the path list on
RECURSIVE GlobFrom(_, _, _)
GlobFrom(tree, s, k) ==
    IF k > Len(PathList) THEN <<>>
    ELSE (IF tree[s][PathList[k]] # NoFile
          THEN <<[server |-> s, path |-> PathList[k], pc |-> "pending"]>>
          ELSE <<>>) \o GlobFrom(tree, s, k + 1)

\* the process_asset coroutines extract_all creates, enabled servers only
RECURSIVE ExtractTasksFrom(_, _)
ExtractTasksFrom(tree, n) ==
    IF n > Len(ServerList) THEN <<>>
    ELSE (IF config[ServerList[n]].enabled
          THEN GlobFrom(tree, ServerList[n], 1)
          ELSE <<>>) \o ExtractTasksFrom(tree, n + 1)

ExtractFrame ==
    UNCHANGED <<config, manifest, diskAssets, diskVersion, asset_cache,
                version_cache, semaphore, srv, tasks, run, cleanRuns, pool, fileVars, sideVars>>

\* extract_all collects the bundles and awaits asyncio.gather(*tasks)
ExtractAllStart ==
    /\ mainPc = "extract"
    /\ xtasks' = ExtractTasksFrom(outputTree, 1)
    /\ xsem' = ExtractCap
    /\ mainPc' = "extracting"
    /\ UNCHANGED outputTree
    /\ ExtractFrame

MayOpen(k) ==
    /\ mainPc = "extracting"
    /\ k \in 1..Len(xtasks)
    /\ xtasks[k].pc = "pending"
    /\ \A j \in 1..(k - 1) : xtasks[j].pc # "pending"
    /\ ~SemLocked(xsem)

\* process_asset: UnityPy.load raises; caught, the bundle is left in place
ProcessAssetLoadFails(k) ==
    /\ MayOpen(k)
    /\ xtasks' = [xtasks EXCEPT ![k] = [@ EXCEPT !.pc = "done"]]
    /\ xsem' = SemRelease(SemAcquire(xsem))
    /\ UNCHANGED <<outputTree, mainPc>>
    /\ ExtractFrame

\* process_asset: the bundle is open and the record tasks are awaited
ProcessAssetOpen(k) ==
    /\ MayOpen(k)
    /\ xtasks' = [xtasks EXCEPT ![k] = [@ EXCEPT !.pc = "processing"]]
    /\ xsem' = SemAcquire(xsem)
    /\ UNCHANGED <<outputTree, mainPc>>
    /\ ExtractFrame

Processing(k) ==
    /\ mainPc = "extracting"
    /\ k \in 1..Len(xtasks)
    /\ xtasks[k].pc = "processing"

\* a record task or _save_asset raises: caught, the bundle is left in place
ProcessAssetFails(k) ==
    /\ Processing(k)
    /\ xtasks' = [xtasks EXCEPT ![k] = [@ EXCEPT !.pc = "done"]]
    /\ xsem' = SemRelease(xsem)
    /\ UNCHANGED <<outputTree, mainPc>>
    /\ ExtractFrame

\* every result is saved; asset_path.unlink()
ProcessAssetExtracted(k) ==
    /\ Processing(k)
    /\ xtasks' = [xtasks EXCEPT ![k] = [@ EXCEPT !.pc = "done"]]
    /\ outputTree' = [outputTree EXCEPT ![xtasks[k].server][xtasks[k].path] = NoFile]
    /\ xsem' = SemRelease(xsem)
    /\ UNCHANGED mainPc
    /\ ExtractFrame

\* asyncio.gather(*tasks) of extract_all returns; main goes on to
\* process_alpha_images
ExtractAllReturn ==
    /\ mainPc = "extracting"
    /\ \A k \in 1..Len(xtasks) : xtasks[k].pc = "done"
    /\ xtasks' = <<>>
    /\ mainPc' = "alpha"
    /\ UNCHANGED <<outputTree, xsem>>
    /\ ExtractFrame

\* positions in extract_all's list of tasks
ExtractIndexes == 1..(Len(ServerList) * Len(PathList))

ExtractNext ==
    \/ ExtractAllStart
    \/ \E k \in ExtractIndexes :
          \/ ProcessAssetLoadFails(k)
          \/ ProcessAssetOpen(k)
          \/ ProcessAssetFails(k)
          \/ ProcessAssetExtracted(k)
    \/ ExtractAllReturn

----------------------------------------------------------------------------
(* TextAssetDecoder: process_directory over the data-table files           *)
(* (gamedata/....bytes). What the two decoders make of a file is a         *)
(* property of its content: flat is the result of decode_flatbuffer_file   *)
(* ("bytes" or "None"), aes the result of decode_aes ("bytes" or "{}").    *)

\* six hexadecimal digits closing the stem of a table file
HexSuffix == "a1b2c3"
HasHexSuffix(p) == Len(p.stem) > 0 /\ p.stem[Len(p.stem)] = HexSuffix

\* the data-table files of the model, in the order os.walk lists them
TableDir == "cn/gamedata/excel"
TableNames == <<"ta_table", "tb_table", "tc_table", "td_table", "te_table">>
TablePath(k) ==
    FilePath(TableDir,
             IF k % 2 = 1 THEN <<TableNames[k], HexSuffix>> ELSE <<TableNames[k]>>,
             "bytes")
TablePaths == [k \in 1..MaxTables |-> TablePath(k)]

\* what a data-table file may hold: decode_flatbuffer_file returns None unless
\* the table name is followed by six hexadecimal digits
TableContents(p) ==
    { c \in [kind : {"table"}, flat : {"bytes", "None"}, aes : {"bytes", "{}"}] :
        ~HasHexSuffix(p) => c.flat = "None" }

\* "if result:" on what a decoder returned
Truthy(result) == result = "bytes"

DecodeFlatbufferFile(fs, p) == fs[p].flat
DecodeAes(fs, p) == fs[p].aes

\* Path(path).parent / f"{Path(match.group(1)).stem}.json": the stem without
\* the six digits
FlatOutput(p) ==
    FilePath(p.dir,
             IF HasHexSuffix(p) THEN SubSeq(p.stem, 1, Len(p.stem) - 1) ELSE p.stem,
             "json")

\* _save_result: mkdir and write_bytes inside try/except Exception that only
\* logs; ok says whether the write went through
SaveResult(fs, out, content, ok) == IF ok THEN WriteFile(fs, out, content) ELSE fs

\* ProcessFile with the decryption tried before the schema
ProcessFileAesFirst(fs, p, ok) ==
    LET aes == DecodeAes(fs, p)
        flat == DecodeFlatbufferFile(fs, p)
    IN  IF Truthy(aes)
        THEN [files |-> Unlink(SaveResult(fs, WithSuffix(p, "json"),
                                          [kind |-> "json", by |-> "aes"], ok), p),
              calls |-> <<"aes">>, flat |-> flat, aes |-> aes,
              out |-> WithSuffix(p, "json"), saved |-> ok]
        ELSE IF Truthy(flat)
        THEN [files |-> Unlink(SaveResult(fs, FlatOutput(p),
                                          [kind |-> "json", by |-> "flatbuffer"], ok), p),
              calls |-> <<"aes", "flatbuffer">>, flat |-> flat, aes |-> aes,
              out |-> FlatOutput(p), saved |-> ok]
        ELSE [files |-> fs, calls |-> <<"aes", "flatbuffer">>, flat |-> flat,
              aes |-> aes, out |-> p, saved |-> FALSE]

\* process_file on a data-table file: the files it leaves, the decoders it
\* called in order, what they returned, the path it saved to and whether
\* the write went through
ProcessFile(fs, p, ok) ==
    LET flat == DecodeFlatbufferFile(fs, p)
        aes == DecodeAes(fs, p)
    IN  IF Truthy(flat)
        THEN [files |-> Unlink(SaveResult(fs, FlatOutput(p),
                                          [kind |-> "json", by |-> "flatbuffer"], ok), p),
              calls |-> <<"flatbuffer">>, flat |-> flat, aes |-> "-",
              out |-> FlatOutput(p), saved |-> ok]
        ELSE IF Truthy(aes)
        THEN [files |-> Unlink(SaveResult(fs, WithSuffix(p, "json"),
                                          [kind |-> "json", by |-> "aes"], ok), p),
              calls |-> <<"flatbuffer", "aes">>, flat |-> flat, aes |-> aes,
              out |-> WithSuffix(p, "json"), saved |-> ok]
        ELSE [files |-> fs, calls |-> <<"flatbuffer", "aes">>, flat |-> flat,
              aes |-> aes, out |-> p, saved |-> FALSE]

\* _EXT_KNOWN and _EXT_AB, without the dot
ExtKnown == {"atlas", "skel", "wav", "mp3", "m4a", "mp4", "avi", "mov", "mkv",
             "flv", "png"}
ExtAb == {"ab", "bin"}

\* str.lower on the extensions of the model
Lower(ext) ==
    CASE ext = "PNG" -> "png"
      [] ext = "AB" -> "ab"
      [] OTHER -> ext

\* data tables saved under a media or bundle extension, as in
\* "tm_table.bytes.png": process_file would take them for data tables
MediaExts == <<"png", "AB", "wav", "bin", "PNG">>
MediaNames == <<"tm_table", "tn_table", "to_table", "tp_table", "tq_table">>
MediaPath(k) == FilePath(TableDir, <<MediaNames[k], ".bytes">>, MediaExts[k])
MediaPaths == [k \in 1..MaxMedia |-> MediaPath(k)]

\* the files os.walk lists
WalkPaths == TablePaths \o MediaPaths

\* is_binary_file: a NUL among the first 1024 bytes; the decoded files that
\* _save_result writes are text
IsBinaryFile(fs, p) == fs[p].kind = "table"

\* ShouldProcessFile without the two extension tests
ShouldProcessFileAnyExt(fs, p) == Exists(fs, p) /\ IsBinaryFile(fs, p)

\* should_process_file: a file, its lowered extension in neither tuple, and
\* binary
ShouldProcessFile(fs, p) ==
    /\ Exists(fs, p)
    /\ Lower(p.ext) \notin ExtKnown
    /\ Lower(p.ext) \notin ExtAb
    /\ IsBinaryFile(fs, p)

\* the files process_directory hands to process_file, from position k on
RECURSIVE WalkFrom(_, _)
WalkFrom(fs, k) ==
    IF k > Len(WalkPaths) THEN <<>>
    ELSE (IF ShouldProcessFile(fs, WalkPaths[k]) THEN <<WalkPaths[k]>> ELSE <<>>)
         \o WalkFrom(fs, k + 1)

\* process_directory over the files in todo; oks[p] says whether the write
\* of p's decoded form goes through
RECURSIVE ProcessDirectory(_, _, _, _)
ProcessDirectory(fs, todo, oks, log) ==
    IF todo = <<>> THEN [files |-> fs, log |-> log]
    ELSE LET r == ProcessFile(fs, Head(todo), oks[Head(todo)])
         IN  ProcessDirectory(r.files, Tail(todo), oks,
                              Append(log, [path |-> Head(todo), calls |-> r.calls,
                                           flat |-> r.flat, aes |-> r.aes,
                                           out |-> r.out, saved |-> r.saved]))

----------------------------------------------------------------------------
(* AlphaProcessor: stems are sequences of characters, an image file holds   *)
(* its size, its mode and, once combined, the file its alpha channel was    *)
(* taken from.                                                              *)

Digits == {"0", "1", "2", "3", "4", "5", "6", "7", "8", "9"}

\* ALPHA_SUFFIXES without the optional "$<digits>" and the closing "$"
AlphaSuffixes ==
    << <<"[", "a", "l", "p", "h", "a", "]">>,
       <<"_", "a", "l", "p", "h", "a">>,
       <<"a", "l", "p", "h", "a">>,
       <<"a">> >>

EndsWith(seq, lit) ==
    /\ Len(seq) >= Len(lit)
    /\ SubSeq(seq, Len(seq) - Len(lit) + 1, Len(seq)) = lit

\* the position of a "$" that only digits, and at least one, follow; or 0
VersionAt(stem) ==
    LET ks == {k \in 1..(Len(stem) - 1) :
                 /\ stem[k] = "$"
                 /\ \A j \in (k + 1)..Len(stem) : stem[j] \in Digits}
    IN  IF ks = {} THEN 0 ELSE CHOOSE k \in ks : TRUE

\* pattern.search(stem).start() for the pattern lit(\$[0-9]+)?$, counted
\* from 1; 0 when there is no match
MatchStart(stem, lit) ==
    IF EndsWith(stem, lit) THEN Len(stem) - Len(lit) + 1
    ELSE IF VersionAt(stem) > 0 /\ EndsWith(SubSeq(stem, 1, VersionAt(stem) - 1), lit)
    THEN VersionAt(stem) - Len(lit)
    ELSE 0

\* BaseNameFrom with the patterns tried from the last to the first
RECURSIVE BaseNameReversed(_, _)
BaseNameReversed(stem, k) ==
    LET j == Len(AlphaSuffixes) + 1 - k
    IN  IF k > Len(AlphaSuffixes) THEN <<"None">>
        ELSE IF MatchStart(stem, AlphaSuffixes[j]) > 0
        THEN SubSeq(stem, 1, MatchStart(stem, AlphaSuffixes[j]) - 1)
        ELSE BaseNameReversed(stem, k + 1)

\* the stem _get_rgb_path keeps, trying the patterns from position k on;
\* <<"None">> when none matches
NoStem == <<"None">>
RECURSIVE BaseNameFrom(_, _)
BaseNameFrom(stem, k) ==
    IF k > Len(AlphaSuffixes) THEN NoStem
    ELSE IF MatchStart(stem, AlphaSuffixes[k]) > 0
    THEN SubSeq(stem, 1, MatchStart(stem, AlphaSuffixes[k]) - 1)
    ELSE BaseNameFrom(stem, k + 1)

\* _get_rgb_path: alpha_path.parent / f"{base_name}{alpha_path.suffix}"
GetRgbPath(p) == [p EXCEPT !.stem = BaseNameFrom(p.stem, 1)]

ImageExtensions == {"png", "jpg", "jpeg", "webp"}

\* AlphaImages without the test that the sibling exists
AlphaImagesUnchecked(fs) ==
    { <<GetRgbPath(p), p>> : p \in
        { q \in DOMAIN fs : /\ q.ext \in ImageExtensions
                            /\ BaseNameFrom(q.stem, 1) # NoStem } }

\* first pass of process_alpha_images: the (rgb_path, alpha_path) pairs
AlphaImages(fs) ==
    { <<GetRgbPath(p), p>> : p \in
        { q \in DOMAIN fs : /\ q.ext \in ImageExtensions
                            /\ BaseNameFrom(q.stem, 1) # NoStem
                            /\ Exists(fs, GetRgbPath(q)) } }

\* what a save that failed half-way leaves of an image file
PartialImage == [kind |-> "image", size |-> 0, mode |-> "partial", alpha |-> "-"]

\* combine_alpha_rgb: Image.open raises on a missing file and on one that
\* is no image, putalpha on an alpha image of another size
CombineRaises(fs, rgb, alpha) ==
    \/ ~Exists(fs, rgb)
    \/ ~Exists(fs, alpha)
    \/ fs[rgb] = PartialImage
    \/ fs[alpha] = PartialImage
    \/ fs[rgb].size # fs[alpha].size

\* CombineAlphaRgb with the alpha channel left out
CombineWithoutAlpha(fs, rgb, alpha) ==
    [kind |-> "image", size |-> fs[rgb].size, mode |-> "RGB", alpha |-> "-"]

\* the RGBA image of the sibling's size, its alpha channel the luminance of
\* the alpha image
CombineAlphaRgb(fs, rgb, alpha) ==
    [kind |-> "image", size |-> fs[rgb].size, mode |-> "RGBA", alpha |-> alpha.stem]

\* CombinePairs with the alpha image unlinked whether or not the composite
\* was saved
RECURSIVE CombinePairsUnlinking(_, _, _, _, _)
CombinePairsUnlinking(fs, pairs, saves, truncates, log) ==
    IF pairs = <<>> THEN [files |-> fs, log |-> log]
    ELSE LET rgb == Head(pairs)[1]
             alpha == Head(pairs)[2]
         IN  IF CombineRaises(fs, rgb, alpha)
             THEN CombinePairsUnlinking(
                      Unlink(fs, alpha), Tail(pairs), saves, truncates,
                      Append(log, [rgb |-> rgb, alpha |-> alpha,
                                   combined |-> FALSE, raised |-> "combine"]))
             ELSE CombinePairsUnlinking(
                      Unlink(WriteFile(fs, rgb, CombineAlphaRgb(fs, rgb, alpha)), alpha),
                      Tail(pairs), saves, truncates,
                      Append(log, [rgb |-> rgb, alpha |-> alpha,
                                   combined |-> TRUE, raised |-> "-"]))

\* second pass: the pairs one after the other, each inside try/except;
\* saves[pair] says whether combined_image.save goes through, truncates
\* whether a save that fails has already written over the file
RECURSIVE CombinePairs(_, _, _, _, _)
CombinePairs(fs, pairs, saves, truncates, log) ==
    IF pairs = <<>> THEN [files |-> fs, log |-> log]
    ELSE LET rgb == Head(pairs)[1]
             alpha == Head(pairs)[2]
         IN  IF CombineRaises(fs, rgb, alpha)
             THEN CombinePairs(fs, Tail(pairs), saves, truncates,
                               Append(log, [rgb |-> rgb, alpha |-> alpha,
                                            combined |-> FALSE, raised |-> "combine"]))
             ELSE IF ~saves[Head(pairs)]
             THEN CombinePairs(IF truncates THEN WriteFile(fs, rgb, PartialImage) ELSE fs,
                               Tail(pairs), saves, truncates,
                               Append(log, [rgb |-> rgb, alpha |-> alpha,
                                            combined |-> FALSE, raised |-> "save"]))
             ELSE CombinePairs(Unlink(WriteFile(fs, rgb, CombineAlphaRgb(fs, rgb, alpha)),
                                      alpha),
                               Tail(pairs), saves, truncates,
                               Append(log, [rgb |-> rgb, alpha |-> alpha,
                                            combined |-> TRUE, raised |-> "-"]))

----------------------------------------------------------------------------
(* PortraitProcessor: an atlas descriptor portraits#<n>.json holds its      *)
(* "_sprites" entries; an entry has its name and its rectangle, either      *)
(* directly under "rect" (shape "flat") or under "sprite" (shape "nested"). *)

\* _get_portrait_paths: portrait_dir.glob("portraits#*.json")
GetPortraitPaths(fs, s) == IF Exists(fs, AtlasJson(s)) THEN <<AtlasJson(s)>> ELSE <<>>

\* the rectangle and the rotation process_portrait reads from the entry it
\* is given: json_data.get("sprite", {}).get("rect", {}), every number 0
\* when the key is not there
RectRead(sprite) ==
    IF sprite.shape = "nested"
    THEN [width |-> sprite.width, height |-> sprite.height,
          rotation |-> sprite.rotation]
    ELSE [width |-> 0, height |-> 0, rotation |-> 0]

\* the size of atlas.crop((x, y, x + width, y + height)), turned with
\* expand=True when the rotation is not 0
SpriteSize(sprite) ==
    LET r == RectRead(sprite)
    IN  IF r.rotation = 0 THEN <<r.width, r.height>> ELSE <<r.height, r.width>>

\* sprite["name"] raises: KeyError on an object without "name", TypeError on
\* an entry that is no object
NameRaises(sprite) == sprite.shape \in {"unnamed", "string"}

\* the except clause of the entry evaluates sprite.get('name', 'unknown'),
\* which raises AttributeError on an entry that is no object
HandlerRaises(sprite) == sprite.shape = "string"

\* process_portrait on one entry, inside the try/except of _process_atlas:
\* the sprite is saved as <name>.png; an image without pixels is saved or
\* makes save raise
ProcessPortrait(fs, dir, sprite, emptySaves) ==
    LET size == SpriteSize(sprite)
    IN  IF NameRaises(sprite) THEN fs
        ELSE IF (size[1] = 0 \/ size[2] = 0) /\ ~emptySaves THEN fs
        ELSE WriteFile(fs, FilePath(dir, <<sprite.name>>, "png"),
                       [kind |-> "image", size |-> size, mode |-> "RGBA", alpha |-> "-"])

\* the loop over "_sprites": the files it leaves and whether an exception
\* left it
RECURSIVE ProcessSprites(_, _, _, _)
ProcessSprites(fs, dir, sprites, emptySaves) ==
    IF sprites = <<>> THEN [files |-> fs, raised |-> FALSE]
    ELSE IF HandlerRaises(Head(sprites)) THEN [files |-> fs, raised |-> TRUE]
    ELSE ProcessSprites(ProcessPortrait(fs, dir, Head(sprites), emptySaves), dir,
                        Tail(sprites), emptySaves)

\* _process_atlas: without the atlas image nothing is done; otherwise the
\* entries are processed, then the descriptor and the image are unlinked;
\* an exception that leaves the loop is caught by the outer except
ProcessAtlas(fs, json_path, emptySaves) ==
    IF ~Exists(fs, WithSuffix(json_path, "png")) THEN fs
    ELSE LET r == ProcessSprites(fs, json_path.dir, fs[json_path].sprites,
                                 emptySaves)
         IN  IF r.raised THEN r.files
             ELSE Unlink(Unlink(r.files, json_path), WithSuffix(json_path, "png"))

RECURSIVE ProcessAtlases(_, _, _)
ProcessAtlases(fs, paths, emptySaves) ==
    IF paths = <<>> THEN fs
    ELSE ProcessAtlases(ProcessAtlas(fs, Head(paths), emptySaves), Tail(paths),
                        emptySaves)

\* PortraitsFrom with the servers that are not enabled processed as well
RECURSIVE PortraitsOfAllServers(_, _, _)
PortraitsOfAllServers(fs, n, emptySaves) ==
    IF n > Len(ServerList) THEN fs
    ELSE PortraitsOfAllServers(
             ProcessAtlases(fs, GetPortraitPaths(fs, ServerList[n]), emptySaves),
             n + 1, emptySaves)

\* process_portraits from server n of the list on, enabled servers only
RECURSIVE PortraitsFrom(_, _, _)
PortraitsFrom(fs, n, emptySaves) ==
    IF n > Len(ServerList) THEN fs
    ELSE PortraitsFrom(
             IF config[ServerList[n]].enabled
             THEN ProcessAtlases(fs, GetPortraitPaths(fs, ServerList[n]), emptySaves)
             ELSE fs,
             n + 1, emptySaves)

----------------------------------------------------------------------------
(* process_audio_files: one process_with_semaphore coroutine per .wav file, *)
(* awaited by asyncio.gather. stage holds the coroutines (pending: not yet  *)
(* past "async with semaphore"; removing: awaiting aiofiles.os.remove with  *)
(* the permit held; done; failed: left by an exception; cancelled), the     *)
(* semaphore and where process_audio_files itself is.                       *)

WavDir == "cn/audio"
WavNames == <<"wa", "wb", "wc", "wd">>
WavPath(k) == FilePath(WavDir, <<WavNames[k]>>, "wav")
WavPaths == [k \in 1..MaxWavs |-> WavPath(k)]

\* the .wav files os.walk finds, from position k of the listing on
RECURSIVE WavFilesFrom(_, _)
WavFilesFrom(fs, k) ==
    IF k > MaxWavs THEN <<>>
    ELSE (IF Exists(fs, WavPaths[k]) THEN <<WavPaths[k]>> ELSE <<>>)
         \o WavFilesFrom(fs, k + 1)

AudioTask(p) == [path |-> p, pc |-> "pending"]
RECURSIVE AudioTasks(_)
AudioTasks(ps) ==
    IF ps = <<>> THEN <<>> ELSE <<AudioTask(Head(ps))>> \o AudioTasks(Tail(ps))

AudioFrame ==
    UNCHANGED <<config, manifest, diskAssets, diskVersion, asset_cache,
                version_cache, semaphore, outputTree, srv, tasks, run,
                cleanRuns, xsem, xtasks, pool, fileVars, loaded, prior,
                bundles, xpool>>

\* no .wav file: "No WAV files found to process", return
ProcessAudioFiles ==
    /\ mainPc = "audio"
    /\ WavFilesFrom(files, 1) = <<>>
    /\ stage' = [name |-> "audio", pc |-> "completed", tasks |-> <<>>,
                 sem |-> AudioCap, log |-> <<>>]
    /\ mainPc' = "done"
    /\ UNCHANGED files
    /\ AudioFrame

\* the tasks are created and process_audio_files awaits asyncio.gather
AudioGather ==
    /\ mainPc = "audio"
    /\ WavFilesFrom(files, 1) # <<>>
    /\ stage' = [name |-> "audio", pc |-> "gathering",
                 tasks |-> AudioTasks(WavFilesFrom(files, 1)),
                 sem |-> AudioCap, log |-> <<>>]
    /\ mainPc' = "audio_gather"
    /\ UNCHANGED files
    /\ AudioFrame

\* the coroutines start in the order gather created them
AudioMayStart(i) ==
    /\ mainPc \in {"audio_gather"}
    /\ i \in 1..Len(stage.tasks)
    /\ stage.tasks[i].pc = "pending"
    /\ \A j \in 1..(i - 1) : stage.tasks[j].pc # "pending"
    /\ ~SemLocked(stage.sem)

\* ConvertRaises with the original removed all the same
ConvertRaisesAndRemoves(i) ==
    /\ AudioMayStart(i)
    /\ files[stage.tasks[i].path].sound = "corrupt"
    /\ files' = Unlink(files, stage.tasks[i].path)
    /\ stage' = [stage EXCEPT !.tasks[i].pc = "failed",
                              !.sem = SemRelease(SemAcquire(@))]
    /\ UNCHANGED mainPc
    /\ AudioFrame

\* convert_audio_file: from_wav or export raises; logged and raised again,
\* out of process_with_semaphore
ConvertRaises(i) ==
    /\ AudioMayStart(i)
    /\ files[stage.tasks[i].path].sound = "corrupt"
    /\ stage' = [stage EXCEPT !.tasks[i].pc = "failed",
                              !.sem = SemRelease(SemAcquire(@))]
    /\ UNCHANGED <<files, mainPc>>
    /\ AudioFrame

\* convert_audio_file: the .mp3 is exported, then aiofiles.os.remove raises
\* before it suspends (the name aiofiles.os is bound only once some module
\* has imported aiofiles.os); logged and raised again
ConvertRemoveRaises(i) ==
    /\ AudioMayStart(i)
    /\ files[stage.tasks[i].path].sound = "ok"
    /\ files' = WriteFile(files, WithSuffix(stage.tasks[i].path, "mp3"),
                          [kind |-> "mp3"])
    /\ stage' = [stage EXCEPT !.tasks[i].pc = "failed",
                              !.sem = SemRelease(SemAcquire(@))]
    /\ UNCHANGED mainPc
    /\ AudioFrame

\* convert_audio_file: the .mp3 is exported and the remove is awaited
ConvertExported(i) ==
    /\ AudioMayStart(i)
    /\ files[stage.tasks[i].path].sound = "ok"
    /\ files' = WriteFile(files, WithSuffix(stage.tasks[i].path, "mp3"),
                          [kind |-> "mp3"])
    /\ stage' = [stage EXCEPT !.tasks[i].pc = "removing",
                              !.sem = SemAcquire(@)]
    /\ UNCHANGED mainPc
    /\ AudioFrame

\* the remove is done in the executor; the coroutine returns if it was not
\* cancelled meanwhile
RemoveDone(i) ==
    /\ stage.name = "audio"
    /\ i \in 1..Len(stage.tasks)
    /\ stage.tasks[i].pc = "removing"
    /\ files' = Unlink(files, stage.tasks[i].path)
    /\ stage' = [stage EXCEPT !.tasks[i].pc =
                                 IF stage.pc = "raised" THEN "cancelled" ELSE "done",
                              !.sem = SemRelease(@)]
    /\ UNCHANGED mainPc
    /\ AudioFrame

\* a coroutine that gather awaits has raised: gather hands the exception to
\* process_audio_files once the coroutines that could start have run; it
\* leaves process_audio_files and main(), and the coroutines that have not
\* started are cancelled when asyncio.run closes the loop
GatherRaises ==
    /\ mainPc = "audio_gather"
    /\ \E i \in 1..Len(stage.tasks) : stage.tasks[i].pc = "failed"
    /\ \A i \in 1..Len(stage.tasks) :
          stage.tasks[i].pc = "pending" => SemLocked(stage.sem)
    /\ stage' = [stage EXCEPT !.pc = "raised",
                              !.tasks = [i \in 1..Len(@) |->
                                           IF @[i].pc = "pending"
                                           THEN [@[i] EXCEPT !.pc = "cancelled"]
                                           ELSE @[i]]]
    /\ mainPc' = "crashed"
    /\ UNCHANGED files
    /\ AudioFrame

\* every coroutine has returned: "Audio processing completed"
GatherReturns ==
    /\ mainPc = "audio_gather"
    /\ \A i \in 1..Len(stage.tasks) : stage.tasks[i].pc = "done"
    /\ stage' = [stage EXCEPT !.pc = "completed"]
    /\ mainPc' = "done"
    /\ UNCHANGED files
    /\ AudioFrame

\* positions in the list of .wav files
WavIndexes == 1..MaxWavs

AudioNext ==
    \/ ProcessAudioFiles
    \/ AudioGather
    \/ \E i \in WavIndexes :
          \/ ConvertRaises(i)
          \/ ConvertRemoveRaises(i)
          \/ ConvertExported(i)
          \/ RemoveDone(i)
    \/ GatherRaises
    \/ GatherReturns

----------------------------------------------------------------------------
(* main(): the post-processing stages, one synchronous call each *)

PostFrame ==
    UNCHANGED <<config, manifest, diskAssets, diskVersion, asset_cache,
                version_cache, semaphore, outputTree, srv, tasks, run,
                cleanRuns, xsem, xtasks, pool, fileVars, loaded, prior,
                bundles, xpool>>

\* process_alpha_images, the scan listing the pairs in any order
ProcessAlphaImages ==
    /\ mainPc = "alpha"
    /\ \E pairs \in Orderings(AlphaImages(files)) :
       \E saves \in [AlphaImages(files) -> BOOLEAN] :
       \E truncates \in BOOLEAN :
          LET r == CombinePairs(files, pairs, saves, truncates, <<>>)
          IN  /\ files' = r.files
              /\ stage' = [name |-> "alpha", log |-> r.log, collected |-> pairs]
    /\ mainPc' = "portraits"
    /\ PostFrame

\* process_portraits; whether this build of the image library writes an
\* image without pixels or raises on it is not the program's choice
ProcessPortraits ==
    /\ mainPc = "portraits"
    /\ \E emptySaves \in BOOLEAN :
          /\ files' = PortraitsFrom(files, 1, emptySaves)
          /\ stage' = [name |-> "portraits", log |-> <<>>, before |-> files]
    /\ mainPc' = "text"
    /\ PostFrame

\* process_text_assets: process_directory over the output tree, each write
\* of a decoded form going through or not
ProcessTextAssets ==
    /\ mainPc = "text"
    /\ LET todo == WalkFrom(files, 1)
       IN  \E oks \in [Range(todo) -> BOOLEAN] :
              LET r == ProcessDirectory(files, todo, oks, <<>>)
              IN  /\ files' = r.files
                  /\ stage' = [name |-> "text", log |-> r.log]
    /\ mainPc' = "audio"
    /\ PostFrame

PostNext ==
    \/ ProcessAlphaImages
    \/ ProcessPortraits
    \/ ProcessTextAssets
    \/ ProcessAudioFiles

Next == SyncNext \/ ExtractNext \/ PostNext

----------------------------------------------------------------------------
(* Sync run again and again: main() is started anew once Sync has flushed *)

StartNextRun ==
    /\ mainPc = "extract"
    /\ run < MaxRuns
    /\ run' = run + 1
    /\ mainPc' = "load"
    /\ asset_cache' = EmptyAssets
    /\ version_cache' = EmptyVersions
    /\ semaphore' = SemaphoreCap
    /\ UNCHANGED <<config, manifest, diskAssets, diskVersion, outputTree, tasks,
                   srv, cleanRuns, xsem, xtasks, pool, fileVars, sideVars>>

InitRuns == InitWith(RunsEntries, {"valid"})

NextRuns == SyncNext \/ StartNextRun

RunsSpec == InitRuns /\ [][NextRuns]_vars

\* Sync with the versions of an earlier run in version.json
ResyncInit == InitWithVersions(RunsEntries, {"valid"}, {StaleVersions})

ResyncSpec == ResyncInit /\ [][SyncNext]_vars


Spec == Init /\ [][Next]_vars

----------------------------------------------------------------------------
(* process_asset record by record: _get_env, one _process_object task per   *)
(* record of env.objects gathered, then the loop that saves the results and *)
(* the unlink. A record task has no await that suspends, so it runs in one  *)
(* step; so does the save loop with the unlink.                             *)

\* the first k paths of the manifest order
FirstPaths(k) == {PathList[j] : j \in 1..Min(k, Len(PathList))}

\* an output tree holding cn bundles under cn/ and en bundles under en/
TreeOf(cn, en) ==
    [s \in Servers |->
        [p \in Paths |->
            IF p \in FirstPaths(IF s = "CN" THEN cn ELSE en) THEN "H1" ELSE NoFile]]

\* process_asset(server, asset_path), not started
NewBundle(t) ==
    [server |-> t.server, path |-> t.path, pc |-> "pending", objs |-> <<>>,
     out |-> <<>>, exit |-> "-"]

RECURSIVE MakeBundles(_)
MakeBundles(ts) ==
    IF ts = <<>> THEN <<>>
    ELSE <<NewBundle(Head(ts))>> \o MakeBundles(Tail(ts))

InitBundles ==
    /\ config = [CN |-> ServerConfig(TRUE, <<>>), EN |-> ServerConfig(TRUE, <<>>)]
    /\ manifest = [s \in Servers |-> <<>>]
    /\ \E cn \in 0..MaxBundles, en \in 0..MaxBundles :
          /\ cn + en \in 1..MaxBundles
          /\ outputTree = TreeOf(cn, en)
    /\ diskAssets = EmptyAssets
    /\ diskVersion = EmptyVersions
    /\ asset_cache = EmptyAssets
    /\ version_cache = EmptyVersions
    /\ semaphore = SemaphoreCap
    /\ srv = [s \in Servers |-> NoCoroutine]
    /\ tasks = [s \in Servers |-> <<>>]
    /\ mainPc = "extract"
    /\ run = 1
    /\ cleanRuns = TRUE
    /\ xsem = ExtractCap
    /\ xtasks = <<>>
    /\ pool = EmptyPool
    /\ cacheFiles = [version |-> "valid", assets |-> "valid"]
    /\ flushes = [version |-> 1, assets |-> 1]
    /\ loaded = NotLoaded
    /\ prior = EmptyAssets
    /\ bundles = <<>>
    /\ NoPost

BundleFrame ==
    UNCHANGED <<config, manifest, diskAssets, diskVersion, asset_cache,
                version_cache, semaphore, srv, tasks, run, cleanRuns, xtasks,
                pool, fileVars, loaded, prior, postVars>>

\* extract_all collects the bundles and awaits asyncio.gather(*tasks)
ExtractAllBundles ==
    /\ mainPc = "extract"
    /\ bundles' = MakeBundles(ExtractTasksFrom(outputTree, 1))
    /\ xsem' = ExtractCap
    /\ mainPc' = "extracting"
    /\ UNCHANGED outputTree
    /\ BundleFrame

BundleMayOpen(k) ==
    /\ mainPc = "extracting"
    /\ k \in 1..Len(bundles)
    /\ bundles[k].pc = "pending"
    /\ \A j \in 1..(k - 1) : bundles[j].pc # "pending"
    /\ ~SemLocked(xsem)

\* BundleLoadFails with the unlink moved to a finally clause
BundleLoadFailsUnlinking(k) ==
    /\ BundleMayOpen(k)
    /\ bundles' = [bundles EXCEPT ![k] = [@ EXCEPT !.pc = "done", !.exit = "load_failed"]]
    /\ outputTree' = [outputTree EXCEPT ![bundles[k].server][bundles[k].path] = NoFile]
    /\ xsem' = SemRelease(SemAcquire(xsem))
    /\ UNCHANGED mainPc
    /\ BundleFrame

\* _get_env raises (UnityPy.load cannot read the file): except, no unlink
BundleLoadFails(k) ==
    /\ BundleMayOpen(k)
    /\ bundles' = [bundles EXCEPT ![k] = [@ EXCEPT !.pc = "done", !.exit = "load_failed"]]
    /\ xsem' = SemRelease(SemAcquire(xsem))
    /\ UNCHANGED <<outputTree, mainPc>>
    /\ BundleFrame

\* the bundle is open with n records: one _process_object task each, gathered
BundleOpen(k, n) ==
    /\ BundleMayOpen(k)
    /\ bundles' = [bundles EXCEPT ![k] =
                     [@ EXCEPT !.pc = "processing",
                               !.objs = [j \in 1..n |-> "pending"],
                               !.out = [j \in 1..n |-> "-"]]]
    /\ xsem' = SemAcquire(xsem)
    /\ UNCHANGED <<outputTree, mainPc>>
    /\ BundleFrame

\* gather runs the record tasks of a bundle in the order of env.objects
ObjectMayRun(k, j) ==
    /\ mainPc = "extracting"
    /\ k \in 1..Len(bundles)
    /\ bundles[k].pc = "processing"
    /\ j \in 1..Len(bundles[k].objs)
    /\ bundles[k].objs[j] = "pending"
    /\ \A i \in 1..(j - 1) : bundles[k].objs[i] # "pending"

\* _process_object returns an AssetResult
ObjectConverted(k, j) ==
    /\ ObjectMayRun(k, j)
    /\ bundles' = [bundles EXCEPT ![k].objs[j] = "result"]
    /\ UNCHANGED <<outputTree, mainPc, xsem>>
    /\ BundleFrame

\* _process_object returns None: no processor for the type, or the
\* processor's read raised and the processor caught it
ObjectSkipped(k, j) ==
    /\ ObjectMayRun(k, j)
    /\ bundles' = [bundles EXCEPT ![k].objs[j] = "None"]
    /\ UNCHANGED <<outputTree, mainPc, xsem>>
    /\ BundleFrame

\* gather has returned the results of every record
Gathered(k) ==
    /\ mainPc = "extracting"
    /\ k \in 1..Len(bundles)
    /\ bundles[k].pc = "processing"
    /\ \A j \in 1..Len(bundles[k].objs) : bundles[k].objs[j] # "pending"

\* the outputs after the save loop, f being the record whose _save_asset
\* raised (0: none did): results before f are written, f's is not, and the
\* loop never reaches those after f
SavedUpTo(objs, f) ==
    [j \in 1..Len(objs) |->
        IF f # 0 /\ j = f THEN "failed"
        ELSE IF objs[j] = "result" /\ (f = 0 \/ j < f) THEN "written"
        ELSE "-"]

\* SaveAssetRaises with the error caught per record: the loop goes on and
\* the bundle is unlinked
SaveAssetRaisesSwallowed(k, f) ==
    /\ Gathered(k)
    /\ f \in 1..Len(bundles[k].objs)
    /\ bundles[k].objs[f] = "result"
    /\ bundles' = [bundles EXCEPT ![k] =
                     [@ EXCEPT !.pc = "done", !.exit = "extracted",
                               !.out = [j \in 1..Len(bundles[k].objs) |->
                                           IF j = f THEN "failed"
                                           ELSE IF bundles[k].objs[j] = "result"
                                                THEN "written"
                                           ELSE "-"]]]
    /\ outputTree' = [outputTree EXCEPT ![bundles[k].server][bundles[k].path] = NoFile]
    /\ xsem' = SemRelease(xsem)
    /\ UNCHANGED mainPc
    /\ BundleFrame

\* _save_asset raises for result f: the loop is left for the except clause,
\* the later results are not saved and the bundle is not unlinked
SaveAssetRaises(k, f) ==
    /\ Gathered(k)
    /\ f \in 1..Len(bundles[k].objs)
    /\ bundles[k].objs[f] = "result"
    /\ bundles' = [bundles EXCEPT ![k] =
                     [@ EXCEPT !.pc = "done", !.exit = "save_failed",
                               !.out = SavedUpTo(bundles[k].objs, f)]]
    /\ xsem' = SemRelease(xsem)
    /\ UNCHANGED <<outputTree, mainPc>>
    /\ BundleFrame

\* every result is saved; asset_path.unlink()
SaveAssetsAndUnlink(k) ==
    /\ Gathered(k)
    /\ bundles' = [bundles EXCEPT ![k] =
                     [@ EXCEPT !.pc = "done", !.exit = "extracted",
                               !.out = SavedUpTo(bundles[k].objs, 0)]]
    /\ outputTree' = [outputTree EXCEPT ![bundles[k].server][bundles[k].path] = NoFile]
    /\ xsem' = SemRelease(xsem)
    /\ UNCHANGED mainPc
    /\ BundleFrame

\* asyncio.gather(*tasks) of extract_all returns
BundlesReturn ==
    /\ mainPc = "extracting"
    /\ bundles # <<>>
    /\ \A k \in 1..Len(bundles) : bundles[k].pc = "done"
    /\ bundles' = <<>>
    /\ mainPc' = "alpha"
    /\ UNCHANGED <<outputTree, xsem>>
    /\ BundleFrame

BundleIndexes == 1..MaxBundles
RecordIndexes == 1..MaxRecords
RecordCounts == 0..MaxRecords

BundleNext ==
    \/ ExtractAllBundles
    \/ \E k \in BundleIndexes :
          \/ BundleLoadFails(k)
          \/ \E n \in RecordCounts : BundleOpen(k, n)
          \/ SaveAssetsAndUnlink(k)
    \/ \E k \in BundleIndexes, j \in RecordIndexes :
          \/ ObjectConverted(k, j)
          \/ ObjectSkipped(k, j)
          \/ SaveAssetRaises(k, j)
    \/ BundlesReturn

BundleSpec == InitBundles /\ [][BundleNext]_vars

----------------------------------------------------------------------------
(* load_caches call by call, over every cache file it can find *)

\* the documents that validate as AssetCache / VersionCache
AssetDocs == [Paths -> {NoHash} \cup Hashes]
VersionDocs == {v \in [Servers -> {NoVersion, "r-cn", "r-en"}] :
                  \A s \in Servers : v[s] \in {NoVersion, RemoteVersion(s)}}

InitLoad ==
    /\ config = [CN |-> ServerConfig(TRUE, <<>>), EN |-> ServerConfig(TRUE, <<>>)]
    /\ manifest = [s \in Servers |-> <<>>]
    /\ cacheFiles \in [version : FileStates, assets : FileStates]
    /\ diskAssets \in IF cacheFiles.assets = "valid" THEN AssetDocs ELSE {EmptyAssets}
    /\ diskVersion \in IF cacheFiles.version = "valid" THEN VersionDocs ELSE {EmptyVersions}
    /\ asset_cache = EmptyAssets
    /\ version_cache = EmptyVersions
    /\ semaphore = SemaphoreCap
    /\ outputTree = EmptyTree
    /\ srv = [s \in Servers |-> NoCoroutine]
    /\ tasks = [s \in Servers |-> <<>>]
    /\ mainPc = "load"
    /\ run = 1
    /\ cleanRuns = TRUE
    /\ xsem = ExtractCap
    /\ xtasks = <<>>
    /\ pool = EmptyPool
    /\ flushes = NoFlush
    /\ loaded = NotLoaded
    /\ prior = diskAssets
    /\ bundles = <<>>
    /\ NoPost

LoadFrame ==
    UNCHANGED <<config, manifest, semaphore, outputTree, srv, tasks, run,
                cleanRuns, xsem, xtasks, pool, flushes, prior, bundles,
                postVars>>

\* version_cache = load_cache(config.cache_dir, "version.json", VersionCache)
LoadVersionCache ==
    /\ mainPc = "load"
    /\ LET v == LoadCache(cacheFiles.version, diskVersion, EmptyVersions)
       IN  /\ version_cache' = v.cache
           /\ diskVersion' = v.content
           /\ cacheFiles' = [cacheFiles EXCEPT !.version = v.state]
           /\ loaded' = [file |-> "version", cache |-> v.cache, wrote |-> v.wrote]
    /\ mainPc' = "load_assets"
    /\ UNCHANGED <<diskAssets, asset_cache>>
    /\ LoadFrame

\* asset_cache = load_cache(config.cache_dir, "assets.json", AssetCache)
LoadAssetCache ==
    /\ mainPc = "load_assets"
    /\ LET a == LoadCache(cacheFiles.assets, diskAssets, EmptyAssets)
       IN  /\ asset_cache' = a.cache
           /\ diskAssets' = a.content
           /\ cacheFiles' = [cacheFiles EXCEPT !.assets = a.state]
           /\ loaded' = [file |-> "assets", cache |-> a.cache, wrote |-> a.wrote]
    /\ mainPc' = "loaded"
    /\ UNCHANGED <<diskVersion, version_cache>>
    /\ LoadFrame

LoadNext == LoadVersionCache \/ LoadAssetCache

LoadSpec == InitLoad /\ [][LoadNext]_vars

----------------------------------------------------------------------------
(* The process killed in a run, and main() run again afterwards *)

\* the process is gone and nothing of its memory is left; the files stay
Killed ==
    /\ run < MaxRuns
    /\ mainPc \notin {"killed", "done"}
    /\ mainPc' = "killed"
    /\ asset_cache' = EmptyAssets
    /\ version_cache' = EmptyVersions
    /\ semaphore' = SemaphoreCap
    /\ srv' = [s \in Servers |-> NoCoroutine]
    /\ tasks' = [s \in Servers |-> <<>>]
    /\ xsem' = ExtractCap
    /\ xtasks' = <<>>
    /\ flushes' = NoFlush
    /\ UNCHANGED <<config, manifest, run, cleanRuns, pool, sideVars>>

\* killed between two file operations
Kill ==
    /\ Killed
    /\ UNCHANGED <<diskAssets, diskVersion, cacheFiles, outputTree>>

\* save_cache(f) is the call in progress: the flush of fetch_assets, or
\* load_cache saving the fresh instance it is about to return
SavingFile(f) ==
    \/ f = "version" /\ mainPc = "save_version"
    \/ f = "assets" /\ mainPc = "save_assets"
    \/ mainPc = "load" /\ cacheFiles[f] # "valid"

\* killed inside save_cache: write_text has opened cache_path for writing,
\* which empties it, and has written none or a part of the document
KillDuringSave(f) ==
    /\ Killed
    /\ SavingFile(f)
    /\ cacheFiles' = [cacheFiles EXCEPT ![f] = "not_json"]
    /\ diskVersion' = IF f = "version" THEN EmptyVersions ELSE diskVersion
    /\ diskAssets' = IF f = "assets" THEN EmptyAssets ELSE diskAssets
    /\ UNCHANGED outputTree

\* killed while download_asset extracts the archive: the bundle file is
\* there in part
KillDuringExtract(s, i) ==
    /\ Killed
    /\ InFlight(s, i)
    /\ outputTree' = [outputTree EXCEPT ![s][tasks[s][i].path] = Partial]
    /\ UNCHANGED <<diskAssets, diskVersion, cacheFiles>>

\* main() is started again
RunAgain ==
    /\ mainPc = "killed"
    /\ run' = run + 1
    /\ mainPc' = "load"
    /\ UNCHANGED <<config, manifest, diskAssets, diskVersion, asset_cache,
                   version_cache, semaphore, outputTree, srv, tasks, cleanRuns,
                   xsem, xtasks, pool, fileVars, sideVars>>

KillNext ==
    \/ Kill
    \/ \E f \in CacheFileNames : KillDuringSave(f)
    \/ \E s \in Servers, i \in TaskIndexes : KillDuringExtract(s, i)
    \/ RunAgain

\* the cache files as a run leaves them: whole, or not there yet
InitCrash == InitWith(RunsEntries, {"valid", "missing"})

NextCrash == Next \/ KillNext

CrashSpec == InitCrash /\ [][NextCrash]_vars

----------------------------------------------------------------------------
(* The download semaphore under load: download_asset coroutines of all      *)
(* servers, more than the semaphore has permits, counted by position        *)
(* (pending: not yet past "async with self._semaphore"; inflight: awaiting  *)
(* the response with a permit held; done: returned).                        *)

PoolFrame ==
    UNCHANGED <<config, manifest, diskAssets, diskVersion, asset_cache,
                version_cache, outputTree, srv, tasks, mainPc, run, cleanRuns,
                xsem, xtasks, fileVars, sideVars>>

PoolMove(s, from, to, exit) ==
    [pool EXCEPT ![s] = [[@ EXCEPT ![from] = @ - 1] EXCEPT ![to] = @ + 1],
                 !.last = exit]

PoolMayStart(s) ==
    /\ pool[s].pending > 0
    /\ ~SemLocked(semaphore)

\* return None before any await: not whitelisted
PoolNotWhitelisted(s) ==
    /\ PoolMayStart(s)
    /\ semaphore' = SemRelease(SemAcquire(semaphore))
    /\ pool' = PoolMove(s, "pending", "done", "not_whitelisted")
    /\ PoolFrame

\* return None before any await: the cached hash matches
PoolHashMatch(s) ==
    /\ PoolMayStart(s)
    /\ semaphore' = SemRelease(SemAcquire(semaphore))
    /\ pool' = PoolMove(s, "pending", "done", "hash_match")
    /\ PoolFrame

\* PoolRequest with the GET issued outside "async with self._semaphore"
PoolRequestWithoutPermit(s) ==
    /\ pool[s].pending > 0
    /\ semaphore' = semaphore
    /\ pool' = PoolMove(s, "pending", "inflight", pool.last)
    /\ PoolFrame

\* the GET is issued with the permit held
PoolRequest(s) ==
    /\ PoolMayStart(s)
    /\ semaphore' = SemAcquire(semaphore)
    /\ pool' = PoolMove(s, "pending", "inflight", pool.last)
    /\ PoolFrame

\* except aiohttp.ClientError: return None
PoolClientError(s) ==
    /\ pool[s].inflight > 0
    /\ semaphore' = SemRelease(semaphore)
    /\ pool' = PoolMove(s, "inflight", "done", "client_error")
    /\ PoolFrame

\* except Exception: return None
PoolOtherError(s) ==
    /\ pool[s].inflight > 0
    /\ semaphore' = SemRelease(semaphore)
    /\ pool' = PoolMove(s, "inflight", "done", "unexpected_error")
    /\ PoolFrame

\* extraction raised: return None
PoolExtractFails(s) ==
    /\ pool[s].inflight > 0
    /\ semaphore' = SemRelease(semaphore)
    /\ pool' = PoolMove(s, "inflight", "done", "extract_failed")
    /\ PoolFrame

\* return data
PoolExtracted(s) ==
    /\ pool[s].inflight > 0
    /\ semaphore' = SemRelease(semaphore)
    /\ pool' = PoolMove(s, "inflight", "done", "fetched")
    /\ PoolFrame

SemInit ==
    /\ config = [CN |-> ServerConfig(TRUE, <<>>), EN |-> ServerConfig(TRUE, <<>>)]
    /\ manifest = [s \in Servers |-> <<>>]
    /\ diskAssets = EmptyAssets
    /\ diskVersion = EmptyVersions
    /\ asset_cache = EmptyAssets
    /\ version_cache = [s \in Servers |-> RemoteVersion(s)]
    /\ semaphore = SemaphoreCap
    /\ outputTree = EmptyTree
    /\ srv = [s \in Servers |-> [pc |-> "download", attempt |-> 0]]
    /\ tasks = [s \in Servers |-> <<>>]
    /\ mainPc = "sync"
    /\ run = 1
    /\ cleanRuns = TRUE
    /\ xsem = ExtractCap
    /\ xtasks = <<>>
    /\ pool = PoolOf(PoolTasks)
    /\ cacheFiles = [version |-> "valid", assets |-> "valid"]
    /\ flushes = NoFlush
    /\ loaded = NotLoaded
    /\ prior = EmptyAssets
    /\ bundles = <<>>
    /\ NoPost

SemNext ==
    \E s \in Servers :
        \/ PoolNotWhitelisted(s)
        \/ PoolHashMatch(s)
        \/ PoolRequest(s)
        \/ PoolClientError(s)
        \/ PoolOtherError(s)
        \/ PoolExtractFails(s)
        \/ PoolExtracted(s)

SemSpec == SemInit /\ [][SemNext]_vars

----------------------------------------------------------------------------
(* The extraction semaphores under load: more process_asset coroutines than *)
(* _semaphore has permits, counted by position (pending: not yet past       *)
(* "async with self._semaphore"; open[r]: awaiting asyncio.gather with the  *)
(* permit held and r record tasks still to run; done: returned).            *)

XPoolFrame ==
    UNCHANGED <<config, manifest, diskAssets, diskVersion, asset_cache,
                version_cache, semaphore, outputTree, srv, tasks, run,
                cleanRuns, xtasks, pool, fileVars, loaded, prior, bundles,
                files, stage>>

\* the process_asset coroutines that hold a permit of _semaphore
RECURSIVE OpenUpTo(_, _)
OpenUpTo(p, r) == IF r < 0 THEN 0 ELSE p.open[r] + OpenUpTo(p, r - 1)
XPoolHolding(p) == OpenUpTo(p, MaxRecords)

XPoolMayOpen ==
    /\ mainPc = "extracting"
    /\ xpool.pending > 0
    /\ ~SemLocked(xsem)

\* UnityPy.load raises: caught at the end of process_asset, permit returned
XPoolLoadFails ==
    /\ XPoolMayOpen
    /\ xsem' = SemRelease(SemAcquire(xsem))
    /\ xpool' = [xpool EXCEPT !.pending = @ - 1, !.done = @ + 1,
                              !.last = "load_failed"]
    /\ UNCHANGED mainPc
    /\ XPoolFrame

\* a bundle without records: gather of nothing does not suspend, the save
\* loop is empty, asset_path.unlink()
XPoolNoRecords ==
    /\ XPoolMayOpen
    /\ xsem' = SemRelease(SemAcquire(xsem))
    /\ xpool' = [xpool EXCEPT !.pending = @ - 1, !.done = @ + 1,
                              !.last = "extracted"]
    /\ UNCHANGED mainPc
    /\ XPoolFrame

\* XPoolOpen with the bundle opened outside "async with self._semaphore"
XPoolOpenWithoutPermit(n) ==
    /\ mainPc = "extracting"
    /\ xpool.pending > 0
    /\ n \in 1..MaxRecords
    /\ xsem' = xsem
    /\ xpool' = [xpool EXCEPT !.pending = @ - 1, !.open[n] = @ + 1]
    /\ UNCHANGED mainPc
    /\ XPoolFrame

\* the bundle is open, its n record tasks are created and awaited
XPoolOpen(n) ==
    /\ XPoolMayOpen
    /\ n \in 1..MaxRecords
    /\ xsem' = SemAcquire(xsem)
    /\ xpool' = [xpool EXCEPT !.pending = @ - 1, !.open[n] = @ + 1]
    /\ UNCHANGED mainPc
    /\ XPoolFrame

\* XPoolRecord with _process_object inside "async with self._semaphore" as
\* well
XPoolRecordUnderBundlePermit(n) ==
    /\ mainPc = "extracting"
    /\ n \in 1..MaxRecords
    /\ xpool.open[n] > 0
    /\ ~SemLocked(xsem)
    /\ ~SemLocked(xpool.osem)
    /\ xpool' = [xpool EXCEPT !.open[n] = @ - 1, !.open[n - 1] = @ + 1,
                              !.osem = SemRelease(SemAcquire(@))]
    /\ UNCHANGED <<xsem, mainPc>>
    /\ XPoolFrame

\* _process_object of one record of a bundle with n records to go: the
\* permit of _object_semaphore is taken and returned without a suspension
XPoolRecord(n) ==
    /\ mainPc = "extracting"
    /\ n \in 1..MaxRecords
    /\ xpool.open[n] > 0
    /\ ~SemLocked(xpool.osem)
    /\ xpool' = [xpool EXCEPT !.open[n] = @ - 1, !.open[n - 1] = @ + 1,
                              !.osem = SemRelease(SemAcquire(@))]
    /\ UNCHANGED <<xsem, mainPc>>
    /\ XPoolFrame

\* gather returned, _save_asset raises: caught, permit returned
XPoolSaveFails ==
    /\ mainPc = "extracting"
    /\ xpool.open[0] > 0
    /\ xsem' = SemRelease(xsem)
    /\ xpool' = [xpool EXCEPT !.open[0] = @ - 1, !.done = @ + 1,
                              !.last = "save_failed"]
    /\ UNCHANGED mainPc
    /\ XPoolFrame

\* gather returned, every result saved, asset_path.unlink()
XPoolExtracted ==
    /\ mainPc = "extracting"
    /\ xpool.open[0] > 0
    /\ xsem' = SemRelease(xsem)
    /\ xpool' = [xpool EXCEPT !.open[0] = @ - 1, !.done = @ + 1,
                              !.last = "extracted"]
    /\ UNCHANGED mainPc
    /\ XPoolFrame

\* asyncio.gather(*tasks) of extract_all returns
XPoolReturn ==
    /\ mainPc = "extracting"
    /\ xpool.pending = 0
    /\ XPoolHolding(xpool) = 0
    /\ mainPc' = "alpha"
    /\ UNCHANGED <<xsem, xpool>>
    /\ XPoolFrame

XPoolInit ==
    /\ config = [CN |-> ServerConfig(TRUE, <<>>), EN |-> ServerConfig(TRUE, <<>>)]
    /\ manifest = [s \in Servers |-> <<>>]
    /\ diskAssets = EmptyAssets
    /\ diskVersion = EmptyVersions
    /\ asset_cache = EmptyAssets
    /\ version_cache = EmptyVersions
    /\ semaphore = SemaphoreCap
    /\ outputTree = EmptyTree
    /\ srv = [s \in Servers |-> NoCoroutine]
    /\ tasks = [s \in Servers |-> <<>>]
    /\ mainPc = "extracting"
    /\ run = 1
    /\ cleanRuns = TRUE
    /\ xsem = ExtractCap
    /\ xtasks = <<>>
    /\ pool = EmptyPool
    /\ cacheFiles = [version |-> "valid", assets |-> "valid"]
    /\ flushes = [version |-> 1, assets |-> 1]
    /\ loaded = NotLoaded
    /\ prior = EmptyAssets
    /\ bundles = <<>>
    /\ xpool = XPoolOf(ExtractTasks)
    /\ files = NoFiles
    /\ stage = NoStage

XPoolNext ==
    \/ XPoolLoadFails
    \/ XPoolNoRecords
    \/ \E n \in RecordCounts : XPoolOpen(n) \/ XPoolRecord(n)
    \/ XPoolSaveFails
    \/ XPoolExtracted
    \/ XPoolReturn

XPoolSpec == XPoolInit /\ [][XPoolNext]_vars

\* the event loop runs every callback that is ready: a coroutine that can
\* take a step takes it
XPoolFairSpec == XPoolSpec /\ WF_vars(XPoolNext)

----------------------------------------------------------------------------
(* The post-processing stages on their own: main() has fetched and         *)
(* extracted, and the output tree holds the files one stage looks for.     *)

\* main() is at the given stage, the fetcher and the extractor are gone
PostInit(pc) ==
    /\ config \in Configs
    /\ manifest = [s \in Servers |-> <<>>]
    /\ diskAssets = EmptyAssets
    /\ diskVersion = EmptyVersions
    /\ asset_cache = EmptyAssets
    /\ version_cache = EmptyVersions
    /\ semaphore = SemaphoreCap
    /\ outputTree = EmptyTree
    /\ srv = [s \in Servers |-> NoCoroutine]
    /\ tasks = [s \in Servers |-> <<>>]
    /\ mainPc = pc
    /\ run = 1
    /\ cleanRuns = TRUE
    /\ xsem = ExtractCap
    /\ xtasks = <<>>
    /\ pool = EmptyPool
    /\ cacheFiles = [version |-> "valid", assets |-> "valid"]
    /\ flushes = [version |-> 1, assets |-> 1]
    /\ loaded = NotLoaded
    /\ prior = EmptyAssets
    /\ bundles = <<>>
    /\ xpool = XPoolOf(0)
    /\ stage = NoStage

\* the trees of data-table files: any of the table paths, each file with
\* any content its name allows
TableTrees ==
    { fs \in UNION { [D -> [kind : {"table"}, flat : {"bytes", "None"},
                            aes : {"bytes", "{}"}]] :
                       D \in SUBSET Range(TablePaths) \ {{}} } :
        \A p \in DOMAIN fs : fs[p] \in TableContents(p) }

\* the trees of media-named files: any of the media paths, each with any
\* content its name allows
MediaTrees ==
    { fs \in UNION { [D -> [kind : {"table"}, flat : {"bytes", "None"},
                            aes : {"bytes", "{}"}]] :
                       D \in SUBSET Range(MediaPaths) } :
        \A p \in DOMAIN fs : fs[p] \in TableContents(p) }

TextInit ==
    /\ PostInit("text")
    /\ files \in {t @@ m : t \in TableTrees, m \in MediaTrees}

TextSpec == TextInit /\ [][ProcessTextAssets]_vars

\* the trees of .wav files: any of the paths, each sound or corrupt
WavTrees ==
    UNION { [D -> [kind : {"wav"}, sound : {"ok", "corrupt"}]] :
              D \in SUBSET Range(WavPaths) }

AudioInit ==
    /\ PostInit("audio")
    /\ files \in WavTrees

AudioSpec == AudioInit /\ [][AudioNext]_vars

\* the image files of the alpha specification: f, f_alpha, ga, ga_alpha,
\* f[alpha]$1, g, halpha$2, h
ImageDir == "cn/arts/ui"
ImageStems ==
    << <<"f">>,
       <<"f", "_", "a", "l", "p", "h", "a">>,
       <<"g", "a">>,
       <<"g", "a", "_", "a", "l", "p", "h", "a">>,
       <<"f", "[", "a", "l", "p", "h", "a", "]", "$", "1">>,
       <<"g">>,
       <<"h", "a", "l", "p", "h", "a", "$", "2">>,
       <<"h">> >>
ImagePaths == [k \in 1..MaxImages |-> FilePath(ImageDir, ImageStems[k], "png")]
ImageSizes == {1, 2}

\* the stems that spell "alpha" out
NamedAlpha(stem) == \E k \in 1..3 : MatchStart(stem, AlphaSuffixes[k]) > 0

\* the trees of image files: any of the paths, each image of any size; a
\* stem that spells "alpha" out holds a grayscale image
ImageTrees ==
    { fs \in UNION { [D -> [kind : {"image"}, size : ImageSizes,
                            mode : {"RGB", "L"}, alpha : {"-"}]] :
                       D \in SUBSET Range(ImagePaths) } :
        \A p \in DOMAIN fs :
            fs[p].mode = (IF NamedAlpha(p.stem) THEN "L" ELSE "RGB") }

AlphaInit ==
    /\ PostInit("alpha")
    /\ files \in ImageTrees

AlphaSpec == AlphaInit /\ [][ProcessAlphaImages]_vars

\* the sprite entries of the portrait specification, named by position
SpriteNames == <<"char_a", "char_b", "char_c">>
SpriteEntries(k) ==
    [name : {SpriteNames[k]}, shape : {"flat", "nested"}, width : 1..AtlasSize[1],
     height : 1..AtlasSize[2], rotation : {0, 90}]
    \cup [name : {SpriteNames[k]}, shape : {"unnamed", "string"}, width : {0},
          height : {0}, rotation : {0}]
SpriteLists ==
    UNION { {sp \in [1..n -> UNION {SpriteEntries(k) : k \in 1..n}] :
               \A k \in 1..n : sp[k] \in SpriteEntries(k)} : n \in 0..MaxSprites }

\* the trees of the portrait specification: the atlas of CN with any
\* entries, its image there or not, beside the atlas of EN
AtlasTrees ==
    { [p \in DOMAIN LeftoverAtlas("EN") \cup {AtlasJson("CN")} \cup png |->
         IF p \in DOMAIN LeftoverAtlas("EN") THEN LeftoverAtlas("EN")[p]
         ELSE IF p.ext = "json" THEN [kind |-> "atlas", sprites |-> sp]
         ELSE AtlasImage] :
      sp \in SpriteLists, png \in {{}, {WithSuffix(AtlasJson("CN"), "png")}} }

PortraitInit ==
    /\ PostInit("portraits")
    /\ files \in AtlasTrees

PortraitSpec == PortraitInit /\ [][ProcessPortraits]_vars

----------------------------------------------------------------------------
(* fetch_server_assets on manifests of any shape: entries with and without *)
(* "name", "hash" and "md5", empty or not, and entries that are no objects *)

\* the entries got by giving each of a set of entries a key more, or not
WithKey(es, key, values) == es \cup {e @@ (key :> v) : e \in es, v \in values}

\* the JSON objects with any of "name" (empty or a path), "hash" (empty or
\* a hash) and "md5", and a JSON value that is no object
RawEntries ==
    WithKey(WithKey(WithKey({[key \in {} |-> ""]}, "name", {<<>>, PathOF}),
                    "hash", {"", "H1"}),
            "md5", {"H2"})
        \cup {[json |-> "string"]}

RawInit ==
    /\ config = [CN |-> ServerConfig(TRUE, <<>>), EN |-> ServerConfig(TRUE, <<>>)]
    /\ manifest \in [CN : SeqsUpTo(RawEntries, MaxRaw), EN : {<<Entry(PathCF, "H2")>>}]
    /\ diskAssets = EmptyAssets
    /\ diskVersion = EmptyVersions
    /\ asset_cache = EmptyAssets
    /\ version_cache = [s \in Servers |-> RemoteVersion(s)]
    /\ semaphore = SemaphoreCap
    /\ outputTree = EmptyTree
    /\ srv = [s \in Servers |-> [pc |-> "manifest", attempt |-> 1,
                                  resource |-> RemoteVersion(s)]]
    /\ tasks = [s \in Servers |-> <<>>]
    /\ mainPc = "sync"
    /\ run = 1
    /\ cleanRuns = TRUE
    /\ xsem = ExtractCap
    /\ xtasks = <<>>
    /\ pool = EmptyPool
    /\ cacheFiles = [version |-> "valid", assets |-> "valid"]
    /\ flushes = NoFlush
    /\ loaded = NotLoaded
    /\ prior = EmptyAssets
    /\ bundles = <<>>
    /\ NoPost

RawNext == \E s \in Servers : ManifestOk(s)

RawSpec == RawInit /\ [][RawNext]_vars

----------------------------------------------------------------------------
(* FlattenImagePathsStep._flatten_directory: a file is its directory, a    *)
(* sequence of components, and its name; the content of a file tells       *)
(* which file it was before the call.                                       *)

FlatPath(dir, name) == [dir |-> dir, name |-> name]

\* d/a/x, d/b/x, d/x, d/a/y, d/z, e/x
FlatPaths ==
    << FlatPath(<<"d", "a">>, "x"), FlatPath(<<"d", "b">>, "x"),
       FlatPath(<<"d">>, "x"), FlatPath(<<"d", "a">>, "y"),
       FlatPath(<<"d">>, "z"), FlatPath(<<"e">>, "x") >>

\* the (src_path, dst_path) of a call: a directory onto itself, a
\* directory into its parent, a directory into another one
FlatCalls ==
    { <<<<"d">>, <<"d">>>>, <<<<"d", "a">>, <<"d">>>>, <<<<"d">>, <<"e">>>> }

\* src_path.rglob("*"): the files anywhere under src
IsUnder(dir, src) == Len(dir) >= Len(src) /\ SubSeq(dir, 1, Len(src)) = src
FilesToMove(fs, src) == {p \in DOMAIN fs : IsUnder(p.dir, src)}

\* MoveFiles with the files already in the destination root counted too
RECURSIVE MoveFilesCountingAll(_, _, _, _, _, _)
MoveFilesCountingAll(fs, todo, dst, oks, moved, log) ==
    IF todo = <<>> THEN [files |-> fs, moved |-> moved, log |-> log]
    ELSE LET p == Head(todo)
             target == FlatPath(dst, p.name)
         IN  IF ~oks[p]
             THEN MoveFilesCountingAll(fs, Tail(todo), dst, oks, moved,
                      Append(log, [path |-> p, target |-> target, moved |-> FALSE]))
             ELSE MoveFilesCountingAll(
                      WriteFile(Unlink(fs, p), target, fs[p]), Tail(todo), dst, oks,
                      moved + 1,
                      Append(log, [path |-> p, target |-> target, moved |-> TRUE]))

\* the loop over files_to_move: a file whose parent is dst_path is skipped;
\* shutil.move puts the file at dst_path / name, over whatever is there, or
\* raises, which is logged; oks[p] says whether the move of p goes through
RECURSIVE MoveFiles(_, _, _, _, _, _)
MoveFiles(fs, todo, dst, oks, moved, log) ==
    IF todo = <<>> THEN [files |-> fs, moved |-> moved, log |-> log]
    ELSE LET p == Head(todo)
             target == FlatPath(dst, p.name)
         IN  IF p.dir = dst
             THEN MoveFiles(fs, Tail(todo), dst, oks, moved, log)
             ELSE IF ~oks[p]
             THEN MoveFiles(fs, Tail(todo), dst, oks, moved,
                      Append(log, [path |-> p, target |-> target, moved |-> FALSE]))
             ELSE MoveFiles(WriteFile(Unlink(fs, p), target, fs[p]), Tail(todo), dst,
                            oks, moved + 1,
                            Append(log, [path |-> p, target |-> target, moved |-> TRUE]))

\* _flatten_directory(src_path, dst_path): the files are collected in the
\* order rglob lists them, then moved one by one; without a file under
\* src_path the call returns 0
FlattenDirectory ==
    /\ mainPc = "flatten"
    /\ \E call \in FlatCalls :
       \E todo \in Orderings(FilesToMove(files, call[1])) :
       \E oks \in [FilesToMove(files, call[1]) -> BOOLEAN] :
          LET r == MoveFiles(files, todo, call[2], oks, 0, <<>>)
          IN  /\ files' = r.files
              /\ stage' = [name |-> "flatten", src |-> call[1], dst |-> call[2],
                           before |-> files, returned |-> r.moved, log |-> r.log]
    /\ mainPc' = "flattened"
    /\ PostFrame

\* the trees of the flattening specification: any of the files
FlatTrees ==
    { [p \in D |-> [kind |-> "file", was |-> p]] :
        D \in SUBSET {FlatPaths[k] : k \in 1..MaxFlat} }

FlattenInit ==
    /\ PostInit("flatten")
    /\ files \in FlatTrees

FlattenSpec == FlattenInit /\ [][FlattenDirectory]_vars

----------------------------------------------------------------------------
(* Properties *)

TaskIds == {<<s, i>> \in Servers \X TaskIndexes : i <= Len(tasks[s])}
TaskAt(id) == tasks[id[1]][id[2]]

\* the returns of download_asset after a failed GET or a failed extraction
GetFailedExits == {"client_error", "unexpected_error"}
FailedExits == GetFailedExits \cup {"extract_failed"}

\* some step of download_asset(s, i) from position "from"
TaskStepFrom(s, i, from) ==
    /\ i <= Len(tasks[s])
    /\ i <= Len(tasks'[s])
    /\ tasks[s][i].pc = from
    /\ tasks'[s][i] # tasks[s][i]

\* C1: when download_asset finds the cached hash of the entry's path equal
\* to the entry's hash, it returns None at once: no GET is issued, nothing is
\* written to the output tree, the cache is unchanged (and the permit is
\* back).
C1_HashMatchSkips ==
    [][\A s \in Servers, i \in TaskIndexes :
          (/\ TaskStepFrom(s, i, "pending")
           /\ asset_cache[tasks[s][i].path] = tasks[s][i].hash)
          => /\ tasks'[s][i].pc = "done"
             /\ tasks'[s][i].ret = "None"
             /\ tasks'[s][i].exit \in {"hash_match", "not_whitelisted"}
             /\ tasks'[s][i].requests = 0
             /\ asset_cache' = asset_cache
             /\ outputTree' = outputTree
             /\ semaphore' = semaphore]_vars

\* a whitelisted entry was skipped because its hash is the cached one
C1_Witness ==
    \E id \in TaskIds :
        /\ TaskAt(id).exit = "hash_match"
        /\ asset_cache[TaskAt(id).path] = TaskAt(id).hash

\* C2: a second run of Sync against unchanged manifests, after a first run
\* in which every download succeeded, issues no asset request.
C2_SecondRunIssuesNoRequest ==
    (run >= 2 /\ cleanRuns) => \A id \in TaskIds : TaskAt(id).requests = 0

\* C3: a fingerprint set by a download implies that the asset's content was
\* written to output_dir/<server>/<path> before.
C3_HashOnlyAfterWrite ==
    \A id \in TaskIds : TaskAt(id).setHash => TaskAt(id).wrote

\* C4: a download_asset call whose GET or extraction fails does not touch
\* the fingerprint cache in any of its steps and returns None.
C4_FailureLeavesCache ==
    [][\A s \in Servers, i \in TaskIndexes :
          /\ TaskStepFrom(s, i, "pending") /\ tasks'[s][i].pc = "inflight"
                => asset_cache' = asset_cache
          /\ TaskStepFrom(s, i, "inflight") /\ tasks'[s][i].exit \in FailedExits
                => /\ asset_cache' = asset_cache
                   /\ tasks'[s][i].ret = "None"
                   /\ ~tasks'[s][i].setHash]_vars

\* a download failed while the cache held an older hash for its path, and
\* the older hash is still there
C4_Witness ==
    \E id \in TaskIds :
        /\ TaskAt(id).exit \in FailedExits
        /\ asset_cache[TaskAt(id).path] \notin {NoHash, TaskAt(id).hash}

PoolInFlight == pool["CN"].inflight + pool["EN"].inflight

\* C6: at most 35 downloads hold a permit at any moment, over all servers,
\* and permits are conserved: whatever return a coroutine leaves by, its
\* permit is back, so free permits + downloads in flight = 35.
C6_SemaphoreBounds ==
    /\ PoolInFlight <= SemaphoreCap
    /\ semaphore >= 0
    /\ semaphore + PoolInFlight = SemaphoreCap

\* all 35 permits are taken and a coroutine is waiting for one
C6_Witness ==
    /\ PoolInFlight = SemaphoreCap
    /\ SemLocked(semaphore)
    /\ \E s \in Servers : pool[s].pending > 0

\* C7: when a download of a server's batch has failed, every sibling that
\* returned data has its file written and its fingerprint recorded, and once
\* all siblings have returned fetch_server_assets can return.
C7_SiblingsUnaffected ==
    \A id \in TaskIds :
        TaskAt(id).exit \in FailedExits =>
            /\ \A j \in 1..Len(tasks[id[1]]) :
                  (j # id[2] /\ tasks[id[1]][j].ret = "data")
                      => tasks[id[1]][j].wrote /\ tasks[id[1]][j].setHash
            /\ (\A j \in 1..Len(tasks[id[1]]) : tasks[id[1]][j].pc = "done")
                  => ENABLED ServerDone(id[1])

\* every step the coroutines of server s can take
ServerStep(s) ==
    \/ ServerStart(s)
    \/ VersionAttemptFails(s)
    \/ VersionMalformedBody(s)
    \/ VersionMissingFields(s)
    \/ VersionOk(s)
    \/ ManifestAttemptFails(s)
    \/ ManifestMalformedBody(s)
    \/ ManifestOk(s)
    \/ ServerDone(s)
    \/ \E i \in TaskIndexes :
          \/ DownloadNotWhitelisted(s, i)
          \/ DownloadHashMatch(s, i)
          \/ DownloadRequest(s, i)
          \/ DownloadClientError(s, i)
          \/ DownloadOtherError(s, i)
          \/ DownloadExtractFails(s, i)
          \/ \E n \in ArchiveSizes : DownloadExtracted(s, i, n)

\* C8: a server whose version or manifest request failed has no download
\* task; the failure does not leave fetch_all (main() is not aborted), and
\* every other server's branch can still take its next step until it ends.
C8_ServerFailureIsolated ==
    /\ mainPc # "crashed"
    /\ \A s \in Servers :
          srv[s].pc = "failed" =>
              /\ tasks[s] = <<>>
              /\ \A t \in Servers \ {s} :
                    srv[t].pc \in {"start", "version", "manifest", "download"}
                        => ENABLED ServerStep(t)

\* one server's branch has failed and the other has fetched an asset since
C8_Witness ==
    \E s, t \in Servers :
        /\ srv[s].pc = "failed"
        /\ srv[t].pc = "download"
        /\ \E i \in 1..Len(tasks[t]) : tasks[t][i].exit = "fetched" /\ tasks[t][i].wrote

\* C9: a server's manifest request is in flight only after its version was
\* resolved in this run, and its download tasks exist only after its
\* manifest arrived (its branch is past the manifest request).
C9_VersionManifestDownload ==
    \A s \in Servers :
        /\ srv[s].pc \in {"manifest", "download", "done"}
              => version_cache[s] = RemoteVersion(s)
        /\ srv[s].pc \in {"none", "start", "disabled", "version", "manifest", "failed"}
              => tasks[s] = <<>>

\* servers are not ordered against each other: one has finished a download
\* while the other still awaits its version
C9_Witness ==
    \E s, t \in Servers :
        /\ srv[s].pc = "version"
        /\ srv[t].pc = "download"
        /\ \E i \in 1..Len(tasks[t]) : tasks[t][i].pc = "done" /\ tasks[t][i].requests = 1

PostStages == {"alpha", "portraits", "text", "audio", "done"}

\* C10: while a bundle is being or has been opened for extraction, no server
\* coroutine and no download task exists and both cache files hold the
\* caches of the run; extraction tasks exist only after Sync; and while a
\* post-processing stage runs (or main() is done) no extraction task is left.
C10_PhaseBarriers ==
    /\ (\E k \in 1..Len(xtasks) : xtasks[k].pc # "pending")
          => /\ \A s \in Servers : srv[s].pc = "none" /\ tasks[s] = <<>>
             /\ diskAssets = asset_cache
             /\ diskVersion = version_cache
    /\ mainPc \in {"load", "sync", "save_version", "save_assets", "extract"}
          => xtasks = <<>>
    /\ mainPc \in PostStages => xtasks = <<>>

\* a bundle fetched in this run is being extracted, after the flush
C10_Witness ==
    \E k \in 1..Len(xtasks) :
        /\ xtasks[k].pc = "processing"
        /\ outputTree[xtasks[k].server][xtasks[k].path] \in Hashes
        /\ diskAssets[xtasks[k].path] \in Hashes

\* main() is past fetch_assets
AfterSync == {"extract", "extracting"} \cup PostStages

C12_CacheFilesStayWhole ==
    \A f \in CacheFileNames : cacheFiles[f] \in {"valid", "missing"}

\* a path is listed by one server only
OneServerListsPaths == \E s \in Servers : manifest[s] = <<>>

\* C14: in the complete run that follows a killed run, no request is issued
\* for an asset whose fingerprint was on disk before the killed run started
\* (its bundle was extracted and deleted by an earlier run), so that no such
\* bundle is fetched and processed again.
C14_NoReprocessAfterKill ==
    (run >= 2 /\ OneServerListsPaths)
        => \A id \in TaskIds :
              TaskAt(id).hash = prior[TaskAt(id).path] => TaskAt(id).requests = 0

\* the document in a cache file
FileContent(f) == IF f = "version" THEN diskVersion ELSE diskAssets
\* model_class()
FreshCache(f) == IF f = "version" THEN EmptyVersions ELSE EmptyAssets
\* the position of main() at which load_cache(f) is called
LoadPcOf(f) == IF f = "version" THEN "load" ELSE "load_assets"

\* C13: load_cache always returns (its call is never stuck on an error).
\* On a file that is missing, is not JSON or does not validate, it returns
\* the fresh empty instance and has saved it: the file is that empty
\* document afterwards. On a valid file it returns the stored document and
\* does not call save_cache; the file is as before.
C13_LoadCacheTotal ==
    /\ [](/\ mainPc = "load" => ENABLED LoadVersionCache
          /\ mainPc = "load_assets" => ENABLED LoadAssetCache)
    /\ [][\A f \in CacheFileNames :
            (mainPc = LoadPcOf(f) /\ mainPc' # mainPc) =>
               /\ loaded'.file = f
               /\ cacheFiles'[f] = "valid"
               /\ IF cacheFiles[f] = "valid"
                  THEN /\ loaded'.cache = FileContent(f)
                       /\ ~loaded'.wrote
                       /\ FileContent(f)' = FileContent(f)
                  ELSE /\ loaded'.cache = FreshCache(f)
                       /\ loaded'.wrote
                       /\ FileContent(f)' = FreshCache(f)]_vars

\* version.json was loaded as stored, with a version in it, and assets.json
\* was unreadable and has been replaced with the empty document
C13_Witness ==
    /\ mainPc = "loaded"
    /\ version_cache # EmptyVersions /\ diskVersion = version_cache
    /\ loaded = [file |-> "assets", cache |-> EmptyAssets, wrote |-> TRUE]
    /\ cacheFiles.assets = "valid" /\ diskAssets = EmptyAssets

\* a is the beginning of b
IsPrefixOf(a, b) ==
    \E n \in 0..Len(b) : a = [k \in 1..n |-> b[k]]

\* C15: a download_asset call leaves "pending" for the hash check (and then
\* the request or the skip by hash) exactly when the server's whitelist is
\* empty, or some whitelist entry is the beginning of the path, or the path
\* is the beginning of some whitelist entry; otherwise it returns None as
\* not whitelisted, having issued no request and changed neither the cache
\* nor the output tree.
C15_WhitelistEitherDirection ==
    [][\A s \in Servers, i \in TaskIndexes :
          TaskStepFrom(s, i, "pending") =>
             LET w == config[s].path_whitelist
                 path == tasks[s][i].path
             IN  IF \/ w = <<>>
                    \/ \E k \in 1..Len(w) :
                          IsPrefixOf(w[k], path) \/ IsPrefixOf(path, w[k])
                 THEN \/ tasks'[s][i].pc = "inflight"
                      \/ tasks'[s][i].exit = "hash_match"
                 ELSE /\ tasks'[s][i].pc = "done"
                      /\ tasks'[s][i].exit = "not_whitelisted"
                      /\ tasks'[s][i].ret = "None"
                      /\ tasks'[s][i].requests = 0
                      /\ asset_cache' = asset_cache
                      /\ outputTree' = outputTree]_vars

\* under the whitelist ["c/"]: o/f was skipped, c/f (the entry is its
\* beginning) and c (the beginning of the entry) were requested
C15_Witness ==
    \E s \in Servers :
        /\ config[s].path_whitelist = <<PrefixC>>
        /\ Len(tasks[s]) = 3
        /\ tasks[s][1].path = PathOF /\ tasks[s][1].exit = "not_whitelisted"
        /\ tasks[s][2].path = PathCF /\ tasks[s][2].requests = 1
        /\ tasks[s][3].path = PathC /\ tasks[s][3].requests = 1

\* C16: a whitelisted entry whose path is in the cache under another hash
\* than the manifest's is requested (the cache is not touched by that step),
\* and the step in which its download and extraction succeed sets the cache
\* entry of its path to the manifest's hash and changes no other entry.
C16_ChangedHashIsFetched ==
    [][\A s \in Servers, i \in TaskIndexes :
          /\ (/\ TaskStepFrom(s, i, "pending")
              /\ IsPathWhitelisted(s, tasks[s][i].path)
              /\ asset_cache[tasks[s][i].path] \in Hashes \ {tasks[s][i].hash})
                => /\ tasks'[s][i].pc = "inflight"
                   /\ tasks'[s][i].requests = 1
                   /\ asset_cache' = asset_cache
          /\ (TaskStepFrom(s, i, "inflight") /\ tasks'[s][i].exit = "fetched")
                => asset_cache' =
                      [asset_cache EXCEPT ![tasks[s][i].path] = tasks[s][i].hash]]_vars

\* o/f was cached as H1, the manifest said H2, and it was fetched: the
\* cache says H2 now
C16_Witness ==
    \E id \in TaskIds :
        /\ prior[TaskAt(id).path] = "H1"
        /\ TaskAt(id).hash = "H2"
        /\ TaskAt(id).exit = "fetched"
        /\ TaskAt(id).requests = 1
        /\ asset_cache = [prior EXCEPT ![TaskAt(id).path] = "H2"]

\* C17: a version or manifest response of the wrong shape (a body that is
\* not JSON, a version document without its fields) ends the server's
\* branch in that very step, without another request, and leaves the other
\* servers' coroutines and tasks as they are.
C17_MalformedNotRetried ==
    [][\A s \in Servers :
          (\/ VersionMalformedBody(s)
           \/ ManifestMalformedBody(s)
           \/ VersionMissingFields(s))
          => /\ srv'[s].pc = "failed"
             /\ \A t \in Servers \ {s} : srv'[t] = srv[t] /\ tasks'[t] = tasks[t]]_vars

\* the bundle file of a process_asset coroutine is in the output tree
BundleOnDisk(b) == outputTree[b.server][b.path] # NoFile

\* C18: a bundle file is gone only if process_asset opened the bundle and
\* every record task of it has run (and the save loop came to its end); a
\* bundle that could not be opened has no record task and is still there.
C18_UnlinkAfterAllRecords ==
    \A k \in 1..Len(bundles) :
        /\ ~BundleOnDisk(bundles[k])
              => /\ bundles[k].exit = "extracted"
                 /\ \A j \in 1..Len(bundles[k].objs) : bundles[k].objs[j] # "pending"
        /\ bundles[k].exit = "load_failed"
              => BundleOnDisk(bundles[k]) /\ bundles[k].objs = <<>>

\* one bundle could not be opened and is still there, another was opened,
\* had both its records attempted and is gone
C18_Witness ==
    \E k, m \in 1..Len(bundles) :
        /\ bundles[k].exit = "load_failed" /\ BundleOnDisk(bundles[k])
        /\ Len(bundles[m].objs) = 2 /\ ~BundleOnDisk(bundles[m])

\* C19: a bundle for which a _save_asset call raised is still in the output
\* tree, and a bundle that is gone had every result of its records written.
C19_SaveFailureKeepsBundle ==
    \A k \in 1..Len(bundles) :
        /\ (\/ bundles[k].exit = "save_failed"
            \/ \E j \in 1..Len(bundles[k].out) : bundles[k].out[j] = "failed")
              => BundleOnDisk(bundles[k])
        /\ ~BundleOnDisk(bundles[k])
              => \A j \in 1..Len(bundles[k].objs) :
                    bundles[k].objs[j] = "result" => bundles[k].out[j] = "written"

\* the first result of a bundle was written, the save of the second raised,
\* and the bundle is still there
C19_Witness ==
    \E k \in 1..Len(bundles) :
        /\ bundles[k].out = <<"written", "failed">>
        /\ bundles[k].pc = "done"
        /\ BundleOnDisk(bundles[k])

\* C20: once process_asset is done with a bundle it opened, every record
\* that gave a result has its output written, except a record whose own
\* save raised.
C20_OtherRecordsWritten ==
    \A k \in 1..Len(bundles) :
        (bundles[k].pc = "done" /\ bundles[k].exit # "load_failed")
            => \A j \in 1..Len(bundles[k].objs) :
                  (bundles[k].objs[j] = "result" /\ bundles[k].out[j] # "failed")
                      => bundles[k].out[j] = "written"

\* the exits of process_asset through its "except Exception"
XPoolFailures == {"load_failed", "save_failed"}
\* the process_asset coroutines that have not returned
XPoolLive(p) == p.pending + XPoolHolding(p)

\* C21: at every moment at most ExtractCap bundles are inside process_asset
\* (they hold exactly the permits missing from _semaphore) and at most
\* ObjectCap records are inside _process_object, counted over all bundles by
\* a semaphore of its own; a bundle that fails returns from its own coroutine
\* only: no sibling is moved or cancelled, extract_all keeps awaiting, and
\* the siblings that are left can still take their steps.
C21_TwoCapsAndIsolation ==
    /\ [](/\ XPoolHolding(xpool) \in 0..ExtractCap
          /\ xsem = ExtractCap - XPoolHolding(xpool)
          /\ ObjectCap - xpool.osem \in 0..ObjectCap
          /\ XPoolLive(xpool) + xpool.done = ExtractTasks
          /\ (mainPc = "extracting" /\ XPoolLive(xpool) > 0
                => ENABLED (XPoolLoadFails \/ XPoolNoRecords \/ XPoolSaveFails
                            \/ XPoolExtracted
                            \/ \E n \in RecordCounts : XPoolOpen(n) \/ XPoolRecord(n)))
          /\ (mainPc # "extracting" => XPoolLive(xpool) = 0))
    /\ [][xpool'.done = xpool.done + 1 /\ xpool'.last \in XPoolFailures
            => /\ XPoolLive(xpool') = XPoolLive(xpool) - 1
               /\ \A r \in RecordIndexes : xpool'.open[r] = xpool.open[r]
               /\ mainPc' = "extracting"]_vars

\* every permit of _semaphore is out, a bundle waits for one, and a bundle
\* has failed before
C21_Witness ==
    /\ XPoolHolding(xpool) = ExtractCap
    /\ xpool.pending > 0
    /\ xpool.last \in XPoolFailures

\* the entries of the log process_text_assets left
TextLog == IF stage.name = "text" THEN Range(stage.log) ELSE {}

\* C22: a data-table file that process_file has deleted has its decoded form
\* written (the write went through and the decoded file exists); a file
\* neither decoder made anything of is still there.
C22_OriginalKeptUnlessWritten ==
    \A e \in TextLog :
        /\ ~Exists(files, e.path) => e.saved /\ Exists(files, e.out)
        /\ ~Truthy(e.flat) /\ ~Truthy(e.aes) => Exists(files, e.path)

\* C30: on a data-table file decode_flatbuffer_file is called first;
\* decode_aes is called exactly when it returned nothing; and when it
\* returned a result, that result is what is written, under the name
\* without the six digits.
C30_SchemaFirstThenFallback ==
    \A e \in TextLog :
        /\ e.calls[1] = "flatbuffer"
        /\ ("aes" \in Range(e.calls)) <=> ~Truthy(e.flat)
        /\ Truthy(e.flat) =>
              /\ e.calls = <<"flatbuffer">>
              /\ e.out = FlatOutput(e.path)
              /\ e.saved => files[e.out] = [kind |-> "json", by |-> "flatbuffer"]
        /\ ~Truthy(e.flat) /\ e.saved => files[e.out] = [kind |-> "json", by |-> "aes"]

\* of two files processed, one was decoded by schema and written, one fell
\* back to the decryption and was written
C30_Witness ==
    /\ \E e \in TextLog : Truthy(e.flat) /\ e.saved /\ Exists(files, e.out)
    /\ \E e \in TextLog : ~Truthy(e.flat) /\ Truthy(e.aes) /\ e.saved
                          /\ "aes" \in Range(e.calls)

\* the process_with_semaphore coroutines of the audio stage
AudioCoroutines == IF stage.name = "audio" THEN Range(stage.tasks) ELSE {}

\* C23: a transcode that fails is the failure of its own file only:
\* process_audio_files does not end by raising, and once main() is through
\* every .wav file whose own transcode did not fail has its .mp3 and is
\* itself removed.
C23_FailureDoesNotBlockOthers ==
    /\ stage.name = "audio" => stage.pc # "raised"
    /\ mainPc \in {"done", "crashed"} =>
          \A t \in AudioCoroutines :
              t.pc \notin {"failed", "removing"} =>
                 /\ Exists(files, WithSuffix(t.path, "mp3"))
                 /\ ~Exists(files, t.path)

\* the pairs process_alpha_images collected
AlphaLog == IF stage.name = "alpha" THEN Range(stage.log) ELSE {}

\* the pairs whose sibling no other pair shares and no pair deletes
AlphaAlone(e) ==
    \A o \in AlphaLog : o # e => o.rgb # e.rgb /\ o.alpha # e.rgb

AtlasesBefore ==
    IF stage.name # "portraits" THEN {}
    ELSE { j \in DOMAIN stage.before :
             /\ j.ext = "json" /\ stage.before[j].kind = "atlas"
             /\ config[IF j.dir = PortraitDir("CN") THEN "CN" ELSE "EN"].enabled
             /\ Exists(stage.before, WithSuffix(j, "png"))
             /\ \A k \in 1..Len(stage.before[j].sprites) :
                   /\ stage.before[j].sprites[k].width <= stage.before[WithSuffix(j, "png")].size[1]
                   /\ stage.before[j].sprites[k].height <= stage.before[WithSuffix(j, "png")].size[2] }

\* C25: after process_portraits, for every entry {name, rect} of such a
\* descriptor, <name>.png exists with exactly the size of the rectangle, and
\* the descriptor and the atlas image are gone.
C25_SpritesCutToSize ==
    \A j \in AtlasesBefore :
        /\ ~Exists(files, j)
        /\ ~Exists(files, WithSuffix(j, "png"))
        /\ \A k \in 1..Len(stage.before[j].sprites) :
              LET sprite == stage.before[j].sprites[k]
                  out == FilePath(j.dir, <<sprite.name>>, "png")
              IN  sprite.shape = "flat" =>
                     /\ Exists(files, out)
                     /\ files[out].size = <<sprite.width, sprite.height>>

\* C29: for a server that is not enabled, no version, manifest or asset
\* request is made (its coroutine returns at once and has no download
\* task), no version is cached for it, no process_asset coroutine is created
\* for a bundle under its directory, which stays as it was, and its portrait
\* atlas is neither sliced nor deleted.
C29_DisabledServerUntouched ==
    \A s \in Servers :
        ~config[s].enabled =>
            /\ srv[s].pc \in {"none", "start", "disabled"}
            /\ tasks[s] = <<>>
            /\ version_cache[s] = NoVersion
            /\ diskVersion[s] = NoVersion
            /\ \A k \in 1..Len(xtasks) : xtasks[k].server # s
            /\ outputTree[s] = LeftoverTree(config)[s]
            /\ \A p \in DOMAIN files :
                  p.dir = PortraitDir(s) =>
                     p \in DOMAIN LeftoverAtlas(s) /\ files[p] = LeftoverAtlas(s)[p]
            /\ \A p \in DOMAIN LeftoverAtlas(s) : Exists(files, p)

\* main() is through: the enabled server has fetched and had its atlas
\* sliced, the bundle and the atlas of the disabled one are still there
C29_Witness ==
    /\ mainPc = "done"
    /\ ~config["EN"].enabled
    /\ asset_cache[PathCF] # NoHash
    /\ Exists(files, FilePath(PortraitDir("CN"), <<"char_z">>, "png"))
    /\ ~Exists(files, AtlasJson("CN"))
    /\ outputTree["EN"][PathOF] = "H1"
    /\ Exists(files, AtlasJson("EN"))

\* an entry that lacks a path or a hash: no object, no "name" or an empty
\* one, neither a "hash" nor an "md5" that is not empty
LacksPathOrHash(e) ==
    \/ "json" \in DOMAIN e
    \/ "name" \notin DOMAIN e
    \/ e.name = <<>>
    \/ /\ ("hash" \notin DOMAIN e \/ e.hash = "")
       /\ ("md5" \notin DOMAIN e \/ e.md5 = "")
HasPathAndHash(e) == ~LacksPathOrHash(e)
\* the hash an entry carries: its "hash", or its "md5" when it has no "hash"
HashCarried(e) == IF "hash" \in DOMAIN e /\ e.hash # "" THEN e.hash ELSE e.md5

\* C26: once fetch_server_assets has built its tasks (it is then awaiting
\* them, not failed), there is exactly one download_asset coroutine for each
\* manifest entry that has a path and a hash, in manifest order and with
\* that path and hash, and none for the entries that lack either.
C26_OneTaskPerCompleteEntry ==
    \A s \in Servers :
        srv[s].pc # "manifest" =>
            LET listed == SelectSeq(manifest[s], HasPathAndHash)
            IN  /\ srv[s].pc = "download"
                /\ Len(tasks[s]) = Len(listed)
                /\ \A i \in 1..Len(listed) :
                      /\ tasks[s][i].path = listed[i].name
                      /\ tasks[s][i].hash = HashCarried(listed[i])
                      /\ tasks[s][i].pc = "pending"

\* a manifest with an entry that lacks a hash beside a complete one has
\* yielded the one task
C26_Witness ==
    /\ srv["CN"].pc = "download"
    /\ Len(manifest["CN"]) = 2
    /\ \E i \in 1..2 : LacksPathOrHash(manifest["CN"][i])
    /\ Len(tasks["CN"]) = 1

\* C27: a download_asset coroutine of server s that returns on a cached
\* hash which was not in assets.json when the run began (so a download of
\* this run recorded it) finds the content of that hash under s's own
\* directory of the output tree.
C27_SkipOnlyAfterOwnFetch ==
    \A id \in TaskIds :
        (TaskAt(id).exit = "hash_match" /\ prior[TaskAt(id).path] # TaskAt(id).hash)
            => outputTree[id[1]][TaskAt(id).path] = TaskAt(id).hash

\* C28: whatever version.json held, the coroutine of an enabled server goes
\* from its start to the version request; a server past that request has
\* the version resolved in this run in the cache; a step of Sync that
\* changes the version cache is a resolve and changes the entry of its
\* server only; the manifest URL and every asset URL of a server carry the
\* version resolved for it in this run.
C28_VersionsOfThisRun ==
    /\ [](\A s \in Servers :
            /\ srv[s].pc = "manifest" => srv[s].resource = RemoteVersion(s)
            /\ srv[s].pc \in {"manifest", "download", "done"} =>
                  version_cache[s] = RemoteVersion(s)
            /\ \A i \in 1..Len(tasks[s]) :
                  tasks[s][i].requests > 0 => tasks[s][i].version = RemoteVersion(s))
    /\ [][/\ \A s \in Servers :
               (srv[s].pc = "start" /\ srv'[s].pc # "start" /\ config[s].enabled)
                   => srv'[s].pc = "version"
          /\ (mainPc = "sync" /\ version_cache' # version_cache) =>
               \E s \in Servers :
                   /\ srv[s].pc = "version"
                   /\ version_cache' = [version_cache EXCEPT ![s] = RemoteVersion(s)]]_vars

\* an asset request of CN carries the version resolved in this run while
\* version.json and the entry of EN still hold the old one
C28_Witness ==
    /\ diskVersion = StaleVersions
    /\ \E i \in 1..Len(tasks["CN"]) :
          /\ tasks["CN"][i].requests > 0
          /\ tasks["CN"][i].version = RemoteVersion("CN")
    /\ version_cache["EN"] = StaleVersion

\* a file whose lowered extension is a known media or a bundle extension
IsMediaOrBundle(p) == Lower(p.ext) \in ExtKnown \cup ExtAb

\* C31: the text stage leaves every file with a media or bundle extension
\* where it is, with its content, hands none of them to process_file and
\* writes no file under such an extension.
C31_MediaAndBundlesLeftAlone ==
    [][mainPc = "text" =>
        /\ \A p \in DOMAIN files :
              IsMediaOrBundle(p) =>
                 /\ Exists(files', p)
                 /\ files'[p] = files[p]
                 /\ \A i \in 1..Len(stage'.log) : stage'.log[i].path # p
        /\ \A p \in DOMAIN files' : IsMediaOrBundle(p) => Exists(files, p)]_vars

\* the stage has decoded and deleted a data table while a file that
\* decode_aes would decode is still there under an upper-case media extension
C31_Witness ==
    /\ stage.name = "text"
    /\ \E e \in TextLog : e.saved /\ ~Exists(files, e.path)
    /\ \E k \in 1..MaxMedia :
          /\ MediaExts[k] # Lower(MediaExts[k])
          /\ Exists(files, MediaPath(k))
          /\ Truthy(files[MediaPath(k)].aes)

\* the images whose stem ends in an alpha suffix
HasAlphaSuffix(p) == p.ext \in ImageExtensions /\ BaseNameFrom(p.stem, 1) # NoStem

\* an image with an alpha suffix whose sibling is not there
LacksSibling(fs, p) == HasAlphaSuffix(p) /\ ~Exists(fs, GetRgbPath(p))

\* p is itself the sibling of an image with an alpha suffix
IsSiblingOf(fs, p) == \E q \in DOMAIN fs : HasAlphaSuffix(q) /\ GetRgbPath(q) = p

\* C32 as stated: process_alpha_images leaves every image with an alpha
\* suffix and no sibling as it is, creates no file, and reports no error
\* for it.
C32_NoSiblingUntouched ==
    [][mainPc = "alpha" =>
        /\ \A p \in DOMAIN files :
              LacksSibling(files, p) =>
                 /\ Exists(files', p)
                 /\ files'[p] = files[p]
                 /\ \A i \in 1..Len(stage'.log) : stage'.log[i].alpha # p
        /\ DOMAIN files' \subseteq DOMAIN files
        /\ mainPc' = "portraits"]_vars

\* C32, amended: the same for every such image that is not itself the
\* sibling of another image with an alpha suffix.
C32_NoSiblingUntouchedUnlessSibling ==
    [][mainPc = "alpha" =>
        /\ \A p \in DOMAIN files :
              (LacksSibling(files, p) /\ ~IsSiblingOf(files, p)) =>
                 /\ Exists(files', p)
                 /\ files'[p] = files[p]
                 /\ \A i \in 1..Len(stage'.log) : stage'.log[i].alpha # p
        /\ DOMAIN files' \subseteq DOMAIN files
        /\ mainPc' = "portraits"]_vars

\* the stage has combined a pair while an image with an alpha suffix and no
\* sibling, itself nobody's sibling, is there as before
C32_Witness ==
    /\ stage.name = "alpha"
    /\ \E e \in AlphaLog : e.combined
    /\ \E p \in DOMAIN files :
          /\ LacksSibling(files, p)
          /\ ~IsSiblingOf(files, p)
          /\ files[p].mode = "L"

\* what (\$[0-9]+)? may match in the stems of the model
VersionMarkers ==
    {<<>>} \cup {<<"$", d>> : d \in Digits} \cup {<<"$", d, e>> : d \in Digits, e \in Digits}

\* the k-th pattern matches the end of the stem
SuffixMatches(stem, k) ==
    \E v \in VersionMarkers : EndsWith(stem, AlphaSuffixes[k] \o v)

\* the image paths the scan has looked at: those still there and the alpha
\* images it has deleted
ScannedImages ==
    {p \in DOMAIN files : p.ext \in ImageExtensions} \cup {e.alpha : e \in AlphaLog}

\* C33: for every image, when some pattern matches the end of its stem, the
\* sibling _get_rgb_path names is the stem without the match of the first
\* such pattern in the order [alpha], _alpha, alpha, a, beside the image and
\* under its extension; when none matches there is no sibling; and the
\* pairs process_alpha_images works on are made with that sibling.
C33_FirstPatternWins ==
    /\ \A p \in ScannedImages :
          LET ks == {k \in 1..Len(AlphaSuffixes) : SuffixMatches(p.stem, k)}
          IN  IF ks = {} THEN BaseNameFrom(p.stem, 1) = NoStem
              ELSE LET k == CHOOSE i \in ks : \A j \in ks : i <= j
                   IN  /\ \E v \in VersionMarkers :
                            p.stem = GetRgbPath(p).stem \o AlphaSuffixes[k] \o v
                       /\ GetRgbPath(p).dir = p.dir
                       /\ GetRgbPath(p).ext = p.ext
    /\ \A e \in AlphaLog : e.rgb = GetRgbPath(e.alpha)

\* f_alpha, whose end the second, the third and the fourth pattern match,
\* and f[alpha]$1 have both been paired with f; g, which no pattern
\* matches, is there
C33_Witness ==
    /\ \E e \in AlphaLog :
          /\ e.alpha.stem = <<"f", "_", "a", "l", "p", "h", "a">>
          /\ Cardinality({k \in 1..Len(AlphaSuffixes) : SuffixMatches(e.alpha.stem, k)}) = 3
          /\ e.rgb.stem = <<"f">>
    /\ \E e \in AlphaLog :
          /\ e.alpha.stem = <<"f", "[", "a", "l", "p", "h", "a", "]", "$", "1">>
          /\ e.rgb.stem = <<"f">>
    /\ \E p \in DOMAIN files : BaseNameFrom(p.stem, 1) = NoStem

\* the atlas descriptors of enabled servers that process_portraits found,
\* with their image and without
AtlasesFound(withImage) ==
    IF stage.name # "portraits" THEN {}
    ELSE { j \in DOMAIN stage.before :
             /\ j.ext = "json" /\ stage.before[j].kind = "atlas"
             /\ config[IF j.dir = PortraitDir("CN") THEN "CN" ELSE "EN"].enabled
             /\ Exists(stage.before, WithSuffix(j, "png")) <=> withImage }

\* C34: after process_portraits, a descriptor found with its image is gone
\* and so is the image, and every entry of it that holds a name and a
\* rectangle inside the image under "sprite" has its <name>.png, whatever
\* became of the entries before it; a descriptor found without its image is
\* still there and none of its entries has a file.
C34_AtlasRemovedSpritesIndependent ==
    /\ \A j \in AtlasesFound(TRUE) :
          /\ ~Exists(files, j)
          /\ ~Exists(files, WithSuffix(j, "png"))
          /\ \A k \in 1..Len(stage.before[j].sprites) :
                stage.before[j].sprites[k].shape = "nested" =>
                   Exists(files, FilePath(j.dir, <<stage.before[j].sprites[k].name>>, "png"))
    /\ \A j \in AtlasesFound(FALSE) :
          /\ Exists(files, j)
          /\ files[j] = stage.before[j]
          /\ \A k \in 1..Len(stage.before[j].sprites) :
                ~Exists(files, FilePath(j.dir, <<stage.before[j].sprites[k].name>>, "png"))

\* C35: a .wav file disappears only in a step before which its .mp3 was
\* there; the original of a coroutine that failed, or that never started,
\* exists; and an original that is gone has its .mp3.
C35_OriginalRemovedAfterExport ==
    /\ [](\A t \in AudioCoroutines :
            /\ t.pc \in {"failed", "pending"} => Exists(files, t.path)
            /\ ~Exists(files, t.path) => Exists(files, WithSuffix(t.path, "mp3")))
    /\ [][\A p \in DOMAIN files :
             (p.ext = "wav" /\ ~Exists(files', p)) =>
                 Exists(files, WithSuffix(p, "mp3"))]_vars

\* one original was transcoded and removed, another, corrupt, failed and is
\* still there without an .mp3
C35_Witness ==
    /\ \E t \in AudioCoroutines :
          /\ ~Exists(files, t.path)
          /\ Exists(files, WithSuffix(t.path, "mp3"))
    /\ \E t \in AudioCoroutines :
          /\ t.pc = "failed"
          /\ Exists(files, t.path)
          /\ files[t.path].sound = "corrupt"
          /\ ~Exists(files, WithSuffix(t.path, "mp3"))

\* C36: process_alpha_images works on every pair it collected, in the order
\* collected, whatever became of the pairs before; the alpha image of a
\* pair whose compositing or saving failed is still there; and a file that
\* disappears in the call is the alpha image of a pair whose composite was
\* saved.
C36_FailedPairKeepsAlpha ==
    /\ [](stage.name = "alpha" =>
            /\ Len(stage.log) = Len(stage.collected)
            /\ \A i \in 1..Len(stage.log) :
                  /\ stage.log[i].rgb = stage.collected[i][1]
                  /\ stage.log[i].alpha = stage.collected[i][2]
                  /\ ~stage.log[i].combined => Exists(files, stage.log[i].alpha)
                  /\ ~Exists(files, stage.log[i].alpha) => stage.log[i].combined)
    /\ [][mainPc = "alpha" =>
            \A p \in DOMAIN files :
                ~Exists(files', p) =>
                    \E i \in 1..Len(stage'.log) :
                        stage'.log[i].alpha = p /\ stage'.log[i].combined]_vars

\* the save of one pair failed and its alpha image is there; the
\* compositing of another failed; a pair after them was combined and its
\* alpha image is gone
C36_Witness ==
    /\ stage.name = "alpha"
    /\ \E i, j, k \in 1..Len(stage.log) :
          /\ i < k /\ j < k
          /\ stage.log[i].raised = "save"
          /\ Exists(files, stage.log[i].alpha)
          /\ stage.log[j].raised = "combine"
          /\ stage.log[k].combined
          /\ ~Exists(files, stage.log[k].alpha)

\* C37: while extract_all awaits, some coroutine can take a step; every
\* process_asset coroutine returns in the end and extract_all with them;
\* and when extract_all has returned every coroutine has, and both
\* semaphores hold all their permits.
C37_ExtractAllTerminates ==
    /\ [](mainPc = "extracting" => ENABLED XPoolNext)
    /\ <>(xpool.done = ExtractTasks)
    /\ <>(mainPc = "alpha")
    /\ [](mainPc = "alpha" =>
            /\ xpool.done = ExtractTasks
            /\ XPoolLive(xpool) = 0
            /\ xsem = ExtractCap
            /\ xpool.osem = ObjectCap)

\* ExtractCap bundles hold every permit of _semaphore, each awaiting its
\* record tasks, while other bundles wait for a permit
C37_Witness ==
    /\ mainPc = "extracting"
    /\ SemLocked(xsem)
    /\ xpool.pending > 0
    /\ xpool.open[0] = 0
    /\ XPoolHolding(xpool) = ExtractCap

\* _flatten_directory has returned and no move raised
FlattenedCleanly ==
    /\ stage.name = "flatten"
    /\ \A i \in 1..Len(stage.log) : stage.log[i].moved

\* the files that were under the source directory, and those that were
\* directly in the destination directory, before the call
WasUnderSrc == {p \in DOMAIN stage.before : IsUnder(p.dir, stage.src)}
WasInDst == {p \in DOMAIN stage.before : p.dir = stage.dst}

\* what C38 says of the files after a call
NoFileLost ==
    /\ \A p \in WasUnderSrc :
          /\ Exists(files, FlatPath(stage.dst, p.name))
          /\ files[FlatPath(stage.dst, p.name)] = stage.before[p]
    /\ \A p \in WasInDst : Exists(files, p) /\ files[p] = stage.before[p]
    /\ stage.returned = Cardinality({i \in 1..Len(stage.log) : stage.log[i].moved})
    /\ stage.returned = Cardinality(WasUnderSrc \ WasInDst)

NamesDistinct ==
    \A p, q \in WasUnderSrc \cup WasInDst : p.name = q.name => p = q

====
